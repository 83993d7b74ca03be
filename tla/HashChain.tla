----------------------------- MODULE HashChain -----------------------------
(***************************************************************************)
(* The hash chain of src/src/blockchain/hash_chain.py as a value: how an   *)
(* entry is made of an alert and the chain before it, and what the         *)
(* validations test.  Where the chain is kept, in memory and in a file,    *)
(* and what can happen to it there, is the subject of AuditTrail, for one  *)
(* pipeline that may crash, and of SharedTrail, for several at a time.     *)
(*                                                                         *)
(* A hash is the term it is computed from, so two hashes are equal exactly *)
(* when their inputs are; the time stamp of an entry, which also goes into *)
(* it, is left out.                                                        *)
(***************************************************************************)
EXTENDS Integers, Sequences, FiniteSets, SequencesExt

\* create_alert_hash, and calculate_hash of the entry data.
DataHash(a) == a
HashOf(index, id, data, previous) == << index, id, data, previous >>
Genesis == << >>

\* Mutant: the hash of the first entry in place of the last.
LastHashOfFirst(c) == IF c = << >> THEN Genesis ELSE Head(c).current

LastHash(c) == IF c = << >> THEN Genesis ELSE Last(c).current

\* The entry that append_alert adds for an alert.
Entry(c, a) ==
    [ index    |-> Len(c),
      id       |-> a.id,
      data     |-> DataHash(a),
      previous |-> LastHash(c),
      current  |-> HashOf(Len(c), a.id, DataHash(a), LastHash(c)) ]

\* The ids in a chain, or in a list of alerts.
IdsOf(c) == {c[i].id : i \in DOMAIN c}
IdList(c) == [i \in DOMAIN c |-> c[i].id]

\* validate_chain.
ValidChain(c) ==
    \A i \in DOMAIN c :
        /\ c[i].index = i - 1
        /\ i > 1 => c[i].previous = c[i - 1].current
        /\ c[i].current = HashOf(c[i].index, c[i].id, c[i].data, c[i].previous)

\* validate_alert looks the alert up by its id and compares the hashes.
\* detect_tampering reports every answer but the last.
Verdict(c, a) ==
    LET entries == {i \in DOMAIN c : c[i].id = a.id}
    IN  IF entries = {} THEN "not found"
        ELSE IF c[Min(entries)].data # DataHash(a) THEN "modified" ELSE "valid"

=============================================================================
