------------------------------ MODULE DiagTypes -----------------------------
(***************************************************************************)
(* The data that the daemon's components hand to each other                *)
(* (src/include/ethercat_diag/common/diag_types.h).                        *)
(*                                                                         *)
(* A snapshot is its timestamp, the master's link and the slaves that      *)
(* answered, in bus order: the reader gives the i-th slave the position    *)
(* i - 1 and counts as many slaves as it read, so position and slave_count *)
(* are not stored.  Events of one snapshot have the same timestamp and are *)
(* a set: no consumer modelled here depends on their order.                *)
(***************************************************************************)
EXTENDS Integers, Sequences

CONSTANTS
    NoSnapshot,   \* an empty std::optional<NetworkSnapshot>
    NoEpisode,    \* an empty std::optional<FaultEpisode>
    NoRecovery    \* an empty std::optional<RecoveryEvent>

AlState == {"INIT", "PREOP", "SAFEOP", "OP", "UNKNOWN"}

(* EEPROM alias and distance from the slave that carries it; alias 0 is a  *)
(* slave with no aliased slave before it.                                  *)
SlaveIdentity == [alias : Nat, rel : Nat]

Valid(id) == id.alias > 0

Slave == [id : SlaveIdentity, state : AlState, error : BOOLEAN]

NetworkSnapshot == [ts : Nat, link : BOOLEAN, slaves : Seq(Slave)]

SlaveCount(s) == Len(s.slaves)

Identities(s) == { s.slaves[i].id : i \in DOMAIN s.slaves }

AllValid(s) == \A id \in Identities(s) : Valid(id)

(* Identities that can be compared: sameStableIdentity is false for an     *)
(* invalid one, even with itself.                                          *)
StableIdentities(s) == { id \in Identities(s) : Valid(id) }

ContainsIdentity(s, id) == id \in StableIdentities(s)

(* The position std::find_if finds the identity at, or -1.                 *)
PositionOf(s, id) ==
    IF ContainsIdentity(s, id)
    THEN (CHOOSE i \in DOMAIN s.slaves :
            /\ s.slaves[i].id = id
            /\ \A j \in 1..i - 1 : s.slaves[j].id # id) - 1
    ELSE -1

=============================================================================
