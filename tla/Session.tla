------------------------------- MODULE Session -------------------------------
(***************************************************************************)
(* What an outbound connection promises its owner, without sockets,        *)
(* goroutines or contexts: a succession of numbered sessions.  A session   *)
(* is opened, may come up once and only through the peer's acknowledgement *)
(* of that very session, and is over for good when it goes down.  After    *)
(* Stop no session is opened again.                                        *)
(*                                                                         *)
(* ClientConn (common/client_conn.go) is shown to implement this module.   *)
(***************************************************************************)
EXTENDS Naturals

CONSTANT MaxEpoch        \* bound on the sessions opened

VARIABLES phase,         \* "down", "opening", "up" or "stopped"
          epoch,         \* number of the latest session, 0 before the first
          answered       \* sessions whose acknowledgement was received

sessionVars == <<phase, epoch, answered>>

SessionTypeOK ==
    /\ phase \in {"down", "opening", "up", "stopped"}
    /\ epoch \in 0 .. MaxEpoch
    /\ answered \subseteq 1 .. epoch

SessionInit ==
    /\ phase = "down"
    /\ epoch = 0
    /\ answered = {}

Open ==
    /\ phase = "down"
    /\ epoch < MaxEpoch
    /\ epoch' = epoch + 1
    /\ phase' = "opening"
    /\ UNCHANGED answered

\* The acknowledgement of the session being opened brings it up.
ComeUp ==
    /\ phase = "opening"
    /\ epoch \notin answered
    /\ answered' = answered \cup {epoch}
    /\ phase' = "up"
    /\ UNCHANGED epoch

\* An acknowledgement that arrives when the session is already being torn
\* down is received and changes nothing.
LateAnswer ==
    /\ phase = "down"
    /\ epoch > 0
    /\ epoch \notin answered
    /\ answered' = answered \cup {epoch}
    /\ UNCHANGED <<phase, epoch>>

GoDown ==
    /\ phase \in {"opening", "up"}
    /\ phase' = "down"
    /\ UNCHANGED <<epoch, answered>>

Finish ==
    /\ phase = "down"
    /\ phase' = "stopped"
    /\ UNCHANGED <<epoch, answered>>

SessionNext == Open \/ ComeUp \/ LateAnswer \/ GoDown \/ Finish

SessionSpec == SessionInit /\ [][SessionNext]_sessionVars

=============================================================================
