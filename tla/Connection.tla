------------------------------ MODULE Connection ------------------------------
(***************************************************************************)
(* What a connection promises its program, synchronous or asynchronous:    *)
(* it is opened at most once, it is over for good when it is closed or     *)
(* goes away, the driver's session is open exactly as long as it is, and   *)
(* statements can be used only meanwhile.                                  *)
(*                                                                         *)
(* Nothing is promised to a program, or with a driver, that is not trusted. *)
(***************************************************************************)
CONSTANTS
    Conns,      \* connections; one that is gone may be made anew
    Stmts       \* statements

VARIABLES
    trusted,    \* TRUE when the promise holds; it never changes
    life,       \* "gone", "new", "open" or "over", of each connection
    session,    \* the driver's session of the connection is open
    usable      \* its statements that the driver can execute

vars == <<trusted, life, session, usable>>

Init ==
    /\ trusted \in BOOLEAN
    /\ life \in [Conns -> {"gone", "new"}]
    /\ session = [c \in Conns |-> FALSE]
    /\ usable = [c \in Conns |-> {}]

Moves(c, from, to) == life[c] \in from /\ life' = [life EXCEPT ![c] = to]

Create(c) == Moves(c, {"gone"}, "new") /\ UNCHANGED <<session, usable>>

Open(c) ==
    /\ Moves(c, {"new"}, "open")
    /\ session' = [session EXCEPT ![c] = TRUE]
    /\ UNCHANGED usable

(* Statements come and go while the connection is open ...                 *)
ChangeStatements(c) ==
    /\ life[c] = "open"
    /\ usable' \in [Conns -> SUBSET Stmts]
    /\ \A d \in Conns \ {c} : usable'[d] = usable[d]
    /\ UNCHANGED <<life, session>>

(* ... and all of them end with it: a disconnect, or the last object gone. *)
Ends(c) ==
    /\ session' = [session EXCEPT ![c] = FALSE]
    /\ usable' = [usable EXCEPT ![c] = {}]

Close(c) == Moves(c, {"open"}, "over") /\ Ends(c)

Drop(c) == Moves(c, {"new", "open", "over"}, "gone") /\ Ends(c)

Next ==
    /\ UNCHANGED trusted
    /\ \E c \in Conns :
        Create(c) \/ Open(c) \/ ChangeStatements(c) \/ Close(c) \/ Drop(c)

Spec == Init /\ [][trusted => Next]_vars
=============================================================================
