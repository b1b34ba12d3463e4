----------------------------- MODULE Attachments ----------------------------
(***************************************************************************)
(* Sending a message, with a file or without (handleSendMessage,           *)
(* handleSendAttachment, SaveUpload and Runner.run), and downloading an    *)
(* attachment (handleGetAttachment and Open).                              *)
(*                                                                         *)
(* A file to send is copied into the data directory, named after nothing   *)
(* but chance, and removed when the handler returns; imsg reads it in      *)
(* between.  The client may give up at any time, which cancels the context *)
(* of the request, and the daemon may end, which ends its handlers without *)
(* their deferred calls: main does not wait for them, and imsg goes on.    *)
(*                                                                         *)
(* The length of a download is counted in buffers of io.Copy.  The files   *)
(* that the form is parsed into are left out: net/http removes them.       *)
(***************************************************************************)
EXTENDS Naturals

CONSTANTS
    Requests,   \* requests to send
    Files,      \* those of them that bring a file
    Gets,       \* downloads
    MaxSize,    \* of a file that is downloaded
    EndLimit    \* how often the daemon ends (a bound)

ASSUME AttachmentsAssumption ==
    Files \subseteq Requests /\ MaxSize \in Nat /\ EndLimit \in Nat

VARIABLES
    up,         \* the daemon runs
    ends,
    at,         \* Requests -> where its handler is
    file,       \* Requests -> the copy in the data directory
    imsg,       \* Requests -> its subprocess
    answer,     \* Requests -> what the client was answered
    gone,       \* requests whose client gave up
    sent,       \* requests that imsg has sent
    cut,        \* requests that the end of the daemon interrupted
    size,       \* Gets -> the length of the file, now
    recorded,   \* Gets -> the length its id has recorded
    get         \* Gets -> the download

sending == <<at, file, imsg, answer, gone, sent, cut>>
fetching == <<size, recorded, get>>
vars == <<up, ends, sending, fetching>>

Sizes == 0 .. MaxSize

(* Types of the variables.                                                 *)
TypeOK ==
    /\ up \in BOOLEAN /\ ends \in 0 .. EndLimit
    /\ at \in [Requests -> {"new", "saving", "ready", "waiting", "leaving", "over"}]
    /\ file \in [Requests -> {"none", "part", "whole"}]
    /\ imsg \in [Requests -> {"none", "running", "ok", "failed"}]
    /\ answer \in [Requests -> {"none", "accepted", "error"}]
    /\ gone \subseteq Requests /\ sent \subseteq Requests /\ cut \subseteq Requests
    /\ size \in [Gets -> Sizes] /\ recorded \in [Gets -> Sizes]
    /\ get \in [Gets -> [at : {"new", "copying", "complete", "broken"},
                         declared : Sizes, written : Sizes,
                         opened : Sizes, text : BOOLEAN]]

(* An id may be older than the file: imsg reports the length it knows, or  *)
(* none, and Messages may still be writing the file.                       *)
Init ==
    /\ up = TRUE /\ ends = 0
    /\ at = [r \in Requests |-> "new"]
    /\ file = [r \in Requests |-> "none"]
    /\ imsg = [r \in Requests |-> "none"]
    /\ answer = [r \in Requests |-> "none"]
    /\ gone = {} /\ sent = {} /\ cut = {}
    /\ size \in [Gets -> Sizes] /\ recorded \in [Gets -> Sizes]
    /\ get = [g \in Gets |-> [at |-> "new", declared |-> 0, written |-> 0,
                              opened |-> 0, text |-> FALSE]]

InHandler(r) == at[r] \notin {"new", "over"}

-----------------------------------------------------------------------------
(* Sending.                                                                *)

(* The handler returns at once, having made nothing.                       *)
Refuse(r) ==
    /\ at' = [at EXCEPT ![r] = "over"]
    /\ answer' = [answer EXCEPT ![r] = "error"]
    /\ UNCHANGED <<file, imsg>>

(* The request is read and checked, and a file for it created; any of      *)
(* these may fail, as reading does when the client is gone.                *)
Receive(r) ==
    /\ up /\ at[r] = "new"
    /\ \/ Refuse(r)
       \/ /\ r \notin gone
          /\ at' = [at EXCEPT ![r] = IF r \in Files THEN "saving" ELSE "ready"]
          /\ file' = IF r \in Files THEN [file EXCEPT ![r] = "part"] ELSE file
          /\ UNCHANGED <<imsg, answer>>
    /\ UNCHANGED <<gone, sent, cut>>

\* Mutant of Save: a copy that failed is left where it is.
SaveLeavesPart(r) ==
    /\ up /\ at[r] = "saving"
    /\ \/ /\ at' = [at EXCEPT ![r] = "ready"]
          /\ file' = [file EXCEPT ![r] = "whole"]
          /\ UNCHANGED answer
       \/ /\ at' = [at EXCEPT ![r] = "over"]
          /\ answer' = [answer EXCEPT ![r] = "error"]
          /\ UNCHANGED file
    /\ UNCHANGED <<imsg, gone, sent, cut>>

\* Mutant of Save: what the copy returns is not looked at.
SaveUnchecked(r) ==
    /\ up /\ at[r] = "saving"
    /\ at' = [at EXCEPT ![r] = "ready"]
    /\ file' = [file EXCEPT ![r] = "whole"] \/ UNCHANGED file
    /\ UNCHANGED <<imsg, answer, gone, sent, cut>>

(* The upload is copied, whole, or the part removed when that fails.       *)
Save(r) ==
    /\ up /\ at[r] = "saving"
    /\ \/ /\ at' = [at EXCEPT ![r] = "ready"]
          /\ file' = [file EXCEPT ![r] = "whole"]
          /\ UNCHANGED answer
       \/ /\ at' = [at EXCEPT ![r] = "over"]
          /\ file' = [file EXCEPT ![r] = "none"]
          /\ answer' = [answer EXCEPT ![r] = "error"]
    /\ UNCHANGED <<imsg, gone, sent, cut>>

(* imsg is started, which fails when it is not installed, and when the     *)
(* context is cancelled by then.                                           *)
Start(r) ==
    /\ up /\ at[r] = "ready"
    /\ \/ /\ r \notin gone
          /\ at' = [at EXCEPT ![r] = "waiting"]
          /\ imsg' = [imsg EXCEPT ![r] = "running"]
          /\ UNCHANGED answer
       \/ /\ at' = [at EXCEPT ![r] = "leaving"]
          /\ answer' = [answer EXCEPT ![r] = "error"]
          /\ UNCHANGED imsg
    /\ UNCHANGED <<file, gone, sent, cut>>

\* Mutant of Kill: the subprocess is not tied to the request's context.
KillNone(r) == FALSE /\ UNCHANGED sending

(* exec.CommandContext kills the subprocess of a cancelled request.        *)
Kill(r) ==
    /\ up /\ at[r] = "waiting" /\ r \in gone
    /\ imsg[r] = "running"
    /\ imsg' = [imsg EXCEPT ![r] = "failed"]
    /\ UNCHANGED <<at, file, answer, gone, sent, cut>>

\* Mutant of Answer: a cancelled request does not wait for imsg to end.
AnswerEarly(r) ==
    /\ up /\ at[r] = "waiting"
    /\ imsg[r] \in {"ok", "failed"} \/ r \in gone
    /\ at' = [at EXCEPT ![r] = "leaving"]
    /\ answer' = [answer EXCEPT ![r] = IF imsg[r] = "ok" THEN "accepted" ELSE "error"]
    /\ UNCHANGED <<file, imsg, gone, sent, cut>>

(* imsg has ended; its exit code decides the answer.                       *)
Answer(r) ==
    /\ up /\ at[r] = "waiting" /\ imsg[r] \in {"ok", "failed"}
    /\ at' = [at EXCEPT ![r] = "leaving"]
    /\ answer' = [answer EXCEPT ![r] = IF imsg[r] = "ok" THEN "accepted" ELSE "error"]
    /\ UNCHANGED <<file, imsg, gone, sent, cut>>

(* The deferred os.Remove.                                                 *)
Leave(r) ==
    /\ up /\ at[r] = "leaving"
    /\ at' = [at EXCEPT ![r] = "over"]
    /\ file' = [file EXCEPT ![r] = "none"]
    /\ UNCHANGED <<imsg, answer, gone, sent, cut>>

Handle(r) == Save(r) \/ Start(r) \/ Kill(r) \/ Answer(r) \/ Leave(r)

(* The subprocess sends and ends, in its own time, daemon or not: well,    *)
(* when it has sent, or not.                                               *)
Imsg(r) ==
    /\ imsg[r] = "running"
    /\ \/ sent' = sent \union {r} /\ UNCHANGED imsg
       \/ /\ r \in sent
          /\ imsg' = [imsg EXCEPT ![r] = "ok"] /\ UNCHANGED sent
       \/ imsg' = [imsg EXCEPT ![r] = "failed"] /\ UNCHANGED sent
    /\ UNCHANGED <<at, file, answer, gone, cut>>

GiveUp(r) ==
    /\ answer[r] = "none" /\ r \notin gone
    /\ gone' = gone \union {r}
    /\ UNCHANGED <<at, file, imsg, answer, sent, cut>>

-----------------------------------------------------------------------------
(* Downloading.                                                            *)

(* Messages writes on.                                                     *)
Grow(g) ==
    /\ size[g] < MaxSize
    /\ size' = [size EXCEPT ![g] = @ + 1]
    /\ UNCHANGED <<recorded, get>>

\* Mutant of Open: no Content-Length is declared.
OpenUndeclared(g) ==
    /\ up /\ get[g].at = "new"
    /\ get' = [get EXCEPT ![g].at = "copying", ![g].opened = size[g]]
    /\ UNCHANGED <<size, recorded>>

(* Open, and the headers: the recorded length is declared, or the present  *)
(* one when none is recorded, and none if that is zero as well.            *)
Open(g) ==
    /\ up /\ get[g].at = "new"
    /\ get' = [get EXCEPT ![g].at = "copying", ![g].opened = size[g],
                          ![g].declared = IF recorded[g] = 0 THEN size[g]
                                          ELSE recorded[g]]
    /\ UNCHANGED <<size, recorded>>

(* io.Copy, a buffer at a time, to a response that takes no more than was  *)
(* declared and whose end tells the client when less has come.  The copy   *)
(* ends with the file; with a buffer that would exceed what was declared   *)
(* (it is refused whole, so the declared length has come if it happens to  *)
(* be a number of buffers); or with an error, whose text is written after  *)
(* what was copied, and only a declared length tells the two apart.        *)
Copy(g) ==
    LET d == get[g]
        Close(end, text) == get' = [get EXCEPT ![g].at = end, ![g].text = text]
    IN  /\ up /\ d.at = "copying"
        /\ \/ /\ d.written < size[g] /\ d.declared \notin 1 .. d.written
              /\ get' = [get EXCEPT ![g].written = @ + 1]
           \/ /\ d.written < size[g] /\ d.declared \in 1 .. d.written
              /\ Close("complete", FALSE) \/ Close("broken", FALSE)
           \/ /\ d.written = size[g]
              /\ Close(IF d.declared \in {0, d.written} THEN "complete" ELSE "broken", FALSE)
           \/ Close(IF d.declared = 0 THEN "complete" ELSE "broken", TRUE)
        /\ UNCHANGED <<size, recorded>>

-----------------------------------------------------------------------------
(* The daemon's end, and its return: the temporary files stay.             *)

End ==
    /\ up /\ ends < EndLimit
    /\ up' = FALSE /\ ends' = ends + 1
    /\ cut' = cut \union {r \in Requests : InHandler(r)}
    /\ at' = [r \in Requests |-> IF InHandler(r) THEN "over" ELSE at[r]]
    /\ get' = [g \in Gets |-> IF get[g].at = "copying"
                              THEN [get[g] EXCEPT !.at = "broken"] ELSE get[g]]
    /\ UNCHANGED <<file, imsg, answer, gone, sent, size, recorded>>

Restart ==
    /\ ~up
    /\ up' = TRUE
    /\ UNCHANGED <<ends, sending, fetching>>

Next ==
    \/ \E r \in Requests : /\ Receive(r) \/ Handle(r) \/ Imsg(r) \/ GiveUp(r)
                           /\ UNCHANGED <<up, ends, fetching>>
    \/ \E g \in Gets : /\ Grow(g) \/ Open(g) \/ Copy(g)
                       /\ UNCHANGED <<up, ends, sending>>
    \/ End \/ Restart

(* A handler that runs goes on, as does the kill of its subprocess; that   *)
(* imsg ever ends by itself is not assumed.                                *)
Fairness == \A r \in Requests : WF_vars(Handle(r) /\ UNCHANGED <<up, ends, fetching>>)

Spec == Init /\ [][Next]_vars /\ Fairness

-----------------------------------------------------------------------------
(* The properties.                                                         *)

(* imsg has the whole file before it for as long as it runs: it is started *)
(* after the copy is closed, and the copy is removed after it has ended.   *)
(* When the daemon ends first, nothing removes it.                         *)
FileWholeForImsg ==
    \A r \in Files : imsg[r] = "running" => file[r] = "whole"

(* A request that was accepted has been sent.                              *)
AcceptedIsSent == \A r \in Requests : answer[r] = "accepted" => r \in sent

(* Whatever was answered, nothing is sent after it: a client that was      *)
(* refused and tries again cannot meet its first attempt.  (It may have    *)
(* been sent before: imsg can fail, or be killed, after it has sent.)      *)
SettledByAnswer ==
    [][\A r \in Requests : answer[r] # "none" => (r \in sent' <=> r \in sent)]_vars

(* A copy stays in the data directory only when the daemon's end           *)
(* interrupted its request: every other way out of the handler removes it. *)
StrayOnlyOfInterrupted ==
    \A r \in Requests : file[r] # "none" => InHandler(r) \/ r \in cut

(* A client that gives up leaves neither a subprocess, however long that   *)
(* would take, nor a file, unless the daemon ends first.                   *)
NothingForNobody ==
    \A r \in Requests :
        r \in gone ~> \/ imsg[r] # "running" /\ file[r] = "none"
                      \/ ~up \/ r \in cut

(* A download that looks complete to the client is all that the file held  *)
(* when it was opened, with no error text in it.  The exceptions: an id    *)
(* older than the file, whose length ends the download early, and a file   *)
(* empty at first, for which no length is declared.                        *)
CompleteIsWhole ==
    \A g \in Gets :
        get[g].at = "complete" =>
            \/ get[g].opened = 0 /\ recorded[g] = 0
            \/ /\ ~get[g].text
               /\ get[g].written >= get[g].opened \/ recorded[g] \in 1 .. get[g].opened - 1
=============================================================================
