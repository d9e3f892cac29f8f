------------------------------- MODULE Mapping -------------------------------
(***************************************************************************)
(* Mapping (types.go): the table from address pair to socket inode that    *)
(* the connection scan fills, the packet workers read and a goroutine of   *)
(* New cleans every two minutes.                                           *)
(*                                                                         *)
(* Cleanup is called with the period of its own loop (netflow.go:269-270), *)
(* so an entry's age matters only against the previous call: one that was  *)
(* there then is older than the expiration ("old") and is deleted; one     *)
(* added since ("young") is deleted only if the call comes late enough.    *)
(***************************************************************************)
EXTENDS Integers

CONSTANTS Keys, Inodes

VARIABLE connInodeHash      \* the dict: a function on the keys it holds

Ages == {"young", "old"}

Entry == [value : Inodes, age : Ages]

MappingTypeOK ==
    /\ DOMAIN connInodeHash \subseteq Keys
    /\ connInodeHash \in [DOMAIN connInodeHash -> Entry]

NewMapping == connInodeHash = [k \in {} |-> {}]

\* Mutant of Exists: the value is not compared.
ExistsKey(key, value) == key \in DOMAIN connInodeHash

Exists(key, value) ==
    key \in DOMAIN connInodeHash /\ connInodeHash[key].value = value

\* Mutant of Add: its arguments are exchanged.
AddSwapped(key, value) ==
    connInodeHash' = [k \in DOMAIN connInodeHash \cup {value} |->
                         IF k = value THEN [value |-> key, age |-> "young"]
                                      ELSE connInodeHash[k]]

Add(key, value) ==
    connInodeHash' = [k \in DOMAIN connInodeHash \cup {key} |->
                         IF k = key THEN [value |-> value, age |-> "young"]
                                    ELSE connInodeHash[k]]

\* The test and the call of rescanConns for one key. Between the two only
\* Cleanup may run, which cannot bring a key back: taking them as one step loses
\* nothing.
AddIfMissing(key, value) ==
    IF Exists(key, value) THEN UNCHANGED connInodeHash ELSE Add(key, value)

Old == {k \in DOMAIN connInodeHash : connInodeHash[k].age = "old"}

\* Mutant of Cleanup: the comparison with the expiration is turned round.
CleanupYoung ==
    \E late \in SUBSET (DOMAIN connInodeHash \ Old) :
        connInodeHash' = [k \in Old \cup late |-> [connInodeHash[k] EXCEPT !.age = "old"]]

\* `late` are the young entries that the timer's delay lets expire too.
Cleanup ==
    \E late \in SUBSET (DOMAIN connInodeHash \ Old) :
        connInodeHash' = [k \in DOMAIN connInodeHash \ (Old \cup late) |->
                             [connInodeHash[k] EXCEPT !.age = "old"]]
=============================================================================
