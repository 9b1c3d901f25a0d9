---------------------------- MODULE MCDiagDaemon ----------------------------
(***************************************************************************)
(* Small instances of DiagDaemon.  The bus has slaves A and B, which can   *)
(* drop out or wait in PREOP, and C, which may come last or before A and   *)
(* be left alone and in error; all have an alias.  A link that is down is  *)
(* seen with no slaves or, in a torn read, with slaves.  The times are     *)
(* few; the wall clock may step back.                                      *)
(***************************************************************************)
EXTENDS DiagDaemon, IoctlSnapshotReader

At(alias, state) == [alias |-> alias, state |-> state, error |-> FALSE]
A == At(1, "OP")
B == At(2, "OP")
C == At(3, "OP")
Waiting == At(1, "PREOP")
Failing == [C EXCEPT !.state = "SAFEOP", !.error = TRUE]

Reads(times, up, down) ==
    { ReadSnapshot(ts, TRUE, bus) : ts \in times, bus \in up }
        \union { ReadSnapshot(ts, FALSE, bus) : ts \in times, bus \in down }

(* Slaves move, drop out and fail; the link goes down without them and, at *)
(* one time, with them.                                                    *)
MCSnapshot ==
    Reads(1..3, { <<Failing>>, <<A, B, C>>, <<C, A>> }, { << >> })
        \union Reads({2}, {}, { <<A, B, C>> })

(* Long enough for the window to forget a loss.                            *)
MCSlowSnapshot ==
    Reads({1, 3, 14}, { <<A, B>>, <<A>>, <<Waiting>> }, {})

MCPortResult ==
    { {}, { [kind |-> "LOST_LINK", position |-> 0, port |-> 1, delta |-> 1] } }

NoPortErrors == { {} }

MCSample ==
    { [code |-> "error", error |-> "set"], [code |-> "clear", error |-> "clear"],
      [code |-> "unread", error |-> "unread"] }

=============================================================================
