---------------------------- MODULE Daemon ----------------------------
(***************************************************************************)
(* The life of the daemon (cmd/chatbubbles/main.go): the start up to the   *)
(* listener, which is KeyMaterial, the control socket (ctlsock.Server.Run) *)
(* and the shutdown.                                                       *)
(*                                                                         *)
(* All runs share the socket's path and the port.  The goroutine of the    *)
(* control socket is started before the port is bound, and main returns as *)
(* soon as Shutdown has closed the port: nothing waits for the goroutine.  *)
(* If Run returns early, main logs its error and serves on without it.     *)
(***************************************************************************)
EXTENDS KeyMaterial

CONSTANT
    Free        \* no run has bound the port

ASSUME DaemonAssumption == Free \notin Runs

VARIABLES
    ctl,      \* Runs -> where its control socket's goroutine is
    sock,     \* the run whose listener the socket's path leads to
    busy,     \* the runs that are answering a command
    port,     \* the run that has bound the port
    told,     \* the runs whose context a signal has cancelled
    down,     \* the runs whose Shutdown has begun
    (* history *)
    crowded,  \* a run was started while another was there
    faulted   \* the runs whose own Chmod or Accept failed

socketVars == <<ctl, sock, busy>>
stopVars == <<told, down>>
pastVars == <<crowded, faulted>>
daemonVars == <<vars, socketVars, port, stopVars, pastVars>>

DaemonTypeOK ==
    /\ TypeOK
    /\ ctl \in [Runs -> {"idle", "unlinked", "listening", "deaf", "closed",
                      "failed", "ended"}]
    /\ sock \in Runs \union {Absent}
    /\ port \in Runs \union {Free}
    /\ busy \subseteq Runs /\ told \subseteq Runs /\ down \subseteq Runs
    /\ crowded \in BOOLEAN /\ faulted \subseteq Runs

DaemonInit ==
    /\ Init
    /\ ctl = [r \in Runs |-> "idle"]
    /\ sock = Absent
    /\ port = Free
    /\ busy = {} /\ told = {} /\ down = {}
    /\ crowded = FALSE /\ faulted = {}

Alive(r) == pc[r] \notin Gone \union {"new"}
At(r, place) == Alive(r) /\ ctl[r] = place
Reach(r, place) == ctl' = [ctl EXCEPT ![r] = place]

-----------------------------------------------------------------------
(* main.                                                                   *)

Launch(r) ==
    /\ Start(r)
    /\ crowded' = (crowded \/ \E q \in Runs : Alive(q))
    /\ UNCHANGED <<socketVars, port, stopVars, faulted>>

Prepare(r) ==
    /\ \/ StatFirst(r) \/ StatSecond(r)
       \/ ReadFirst(r) \/ ReadSecond(r)
       \/ CreateFirst(r) \/ FillFirst(r)
       \/ CreateSecond(r) \/ FillSecond(r)
       \/ WriteFails(r)
    /\ UNCHANGED <<socketVars, port, stopVars, pastVars>>

(* ListenAndServeTLS binds the port before it reads the two files.         *)
Bind(r) ==
    /\ port = Free /\ r \notin down
    /\ Listen(r)
    /\ port' = IF pc'[r] = "serving" THEN r ELSE Free
    /\ UNCHANGED <<socketVars, stopVars, pastVars>>

(* The process is gone, whatever its goroutines were doing: killed, out of *)
(* main, or by log.Fatal when the port is taken.                           *)
Exit(r) ==
    /\ Die(r)
    /\ port' = IF port = r THEN Free ELSE port
    /\ Reach(r, "idle")
    /\ busy' = busy \ {r} /\ told' = told \ {r} /\ down' = down \ {r}
    /\ faulted' = faulted \ {r}
    /\ UNCHANGED <<sock, crowded>>

(* A signal before NotifyContext kills, which Exit covers.                 *)
Signal(r) ==
    /\ pc[r] \in {"listen", "serving"}
    /\ told' = told \union {r}
    /\ UNCHANGED <<vars, socketVars, port, down, pastVars>>

Shutdown(r) ==
    /\ Alive(r) /\ r \in told \ down
    /\ down' = down \union {r}
    /\ port' = IF port = r THEN Free ELSE port
    /\ UNCHANGED <<vars, socketVars, told, pastVars>>

-----------------------------------------------------------------------
(* Run of the control socket.                                              *)

\* Mutant of Unlink: a socket that is there is left alone.
UnlinkNot(r) ==
    /\ pc[r] \in {"listen", "serving"} /\ ctl[r] = "idle"
    /\ Reach(r, "unlinked")
    /\ UNCHANGED <<vars, sock, busy, port, stopVars, pastVars>>

(* What is left of an earlier run is removed, and so is a live socket.     *)
Unlink(r) ==
    /\ pc[r] \in {"listen", "serving"} /\ ctl[r] = "idle"
    /\ sock' = Absent
    /\ Reach(r, "unlinked")
    /\ UNCHANGED <<vars, busy, port, stopVars, pastVars>>

\* Mutant of ListenUnix: the path is removed after it was bound.
ListenThenUnlink(r) ==
    /\ At(r, "unlinked")
    /\ sock' = Absent
    /\ Reach(r, "listening")
    /\ UNCHANGED <<vars, busy, port, stopVars, pastVars>>

ListenUnix(r) ==
    /\ At(r, "unlinked")
    /\ IF sock = Absent THEN sock' = r /\ Reach(r, "listening")
       ELSE Reach(r, "failed") /\ UNCHANGED sock
    /\ UNCHANGED <<vars, busy, port, stopVars, pastVars>>

ChmodFails(r) ==
    /\ At(r, "listening")
    /\ sock' = Absent
    /\ Reach(r, "ended")
    /\ faulted' = faulted \union {r}
    /\ UNCHANGED <<vars, busy, port, stopVars, crowded>>

Command(r) ==
    /\ At(r, "listening") /\ sock = r
    /\ busy' = busy \union {r}
    /\ UNCHANGED <<vars, ctl, sock, port, stopVars, pastVars>>

Answer(r) ==
    /\ Alive(r) /\ r \in busy
    /\ busy' = busy \ {r}
    /\ UNCHANGED <<vars, ctl, sock, port, stopVars, pastVars>>

(* Accept fails though nobody closed the listener (no descriptor is left,  *)
(* say): the loop is left, for good.                                       *)
AcceptFails(r) ==
    /\ At(r, "listening")
    /\ Reach(r, "deaf")
    /\ faulted' = faulted \union {r}
    /\ UNCHANGED <<vars, sock, busy, port, stopVars, crowded>>

(* Closing a unix listener removes its path, whosever it is by now.        *)
CloseSocket(r) ==
    /\ At(r, "listening") \/ At(r, "deaf")
    /\ r \in told
    /\ sock' = Absent
    /\ Reach(r, "closed")
    /\ UNCHANGED <<vars, busy, port, stopVars, pastVars>>

(* Accept has failed, closed or not, and the commands are answered: the    *)
(* deferred Remove, and Close.                                             *)
LeaveSocket(r) ==
    /\ At(r, "deaf") \/ At(r, "closed")
    /\ r \notin busy
    /\ sock' = Absent
    /\ Reach(r, "ended")
    /\ UNCHANGED <<vars, busy, port, stopVars, pastVars>>

DaemonNext == \E r \in Runs :
    \/ Launch(r) \/ Prepare(r) \/ Bind(r) \/ Exit(r)
    \/ Signal(r) \/ Shutdown(r)
    \/ Unlink(r) \/ ListenUnix(r) \/ ChmodFails(r)
    \/ Command(r) \/ Answer(r)
    \/ AcceptFails(r) \/ CloseSocket(r) \/ LeaveSocket(r)

DaemonSpec == DaemonInit /\ [][DaemonNext]_daemonVars

-----------------------------------------------------------------------
(* Properties.                                                             *)

(* A daemon that serves and was not told to stop can be administered: the  *)
(* path leads to the socket it listens on.  It does not hold: a second     *)
(* start removes the path before it finds the port taken (Remove in Run).  *)
AdminReachable ==
    \A r \in Runs :
        pc[r] = "serving" /\ ctl[r] = "listening" /\ r \notin told => sock = r

Listened(r) == ctl[r] \notin {"idle", "unlinked"}

(* ... but only then, and by a failure of its own.  A daemon that serves,  *)
(* was not told to stop and has come to listen on its control socket still *)
(* accepts there, and the path still leads to it, unless a daemon was      *)
(* started beside another (Remove in Run), or its own Chmod or Accept      *)
(* failed: Run then returns and takes the path away, and the daemon serves *)
(* on without a control socket.                                            *)
SocketKept ==
    ~crowded =>
        \A r \in Runs \ (told \union faulted) :
            pc[r] = "serving" /\ Listened(r) =>
                ctl[r] = "listening" /\ sock = r

(* What a run leaves behind, however it ended, does not keep the next from *)
(* listening on the control socket (Remove before Listen in Run).          *)
RestartListens == ~crowded => \A r \in Runs : ctl[r] # "failed"

-----------------------------------------------------------------------
(* What they rest on, shown inductive in DaemonProofs.                     *)

(* Unless a daemon was started beside another, only one run touches the    *)
(* socket's path, and it leaves its loop for one of two reasons.           *)
SocketInv ==
    /\ DaemonTypeOK
    /\ ~crowded =>
           /\ \A q, r \in Runs : Alive(q) /\ Alive(r) => q = r
           /\ \A r \in Runs :
                  /\ pc[r] = "new" => ctl[r] = "idle"
                  /\ At(r, "unlinked") => sock = Absent
                  /\ At(r, "listening") => sock = r
                  /\ ctl[r] \in {"deaf", "closed", "ended"} =>
                         r \in told \union faulted
                  /\ ctl[r] # "failed"

=======================================================================
