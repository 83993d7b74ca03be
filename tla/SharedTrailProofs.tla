------------------------- MODULE SharedTrailProofs -------------------------
(***************************************************************************)
(* Proofs about SharedTrail, for any number of pipelines, alerts, windows, *)
(* failed commits and deletions.                                           *)
(***************************************************************************)
EXTENDS SharedTrail, TLAPS

Sound(c) == c \in Seq(ToSet(c)) /\ ValidChain(c)

-----------------------------------------------------------------------------
(***************************************************************************)
(* Chains.                                                                 *)
(***************************************************************************)
\* append_alert on a valid chain makes a valid chain, one entry longer, that
\* has the ids of the old one and the new id.
LEMMA AppendSound ==
    ASSUME NEW c, Sound(c), NEW a
    PROVE  /\ Sound(Append(c, Entry(c, a)))
           /\ Len(Append(c, Entry(c, a))) = Len(c) + 1
           /\ IdsOf(Append(c, Entry(c, a))) = IdsOf(c) \cup {a.id}
<1> DEFINE e == Entry(c, a)
           S == ToSet(c) \cup {e}
           d == Append(c, e)
<1>1. c \in Seq(S) /\ e \in S /\ Len(c) \in Nat
  BY DEF Sound
<1>2. e.index = Len(c) /\ e.id = a.id /\ e.data = DataHash(a) /\ e.previous = LastHash(c)
      /\ e.current = HashOf(e.index, e.id, e.data, e.previous)
  BY DEF Entry
<1> HIDE DEF e
<1>3. d \in Seq(S) /\ Len(d) = Len(c) + 1 /\ DOMAIN d = 1..(Len(c) + 1)
      /\ d[Len(c) + 1] = e /\ \A i \in 1..Len(c) : d[i] = c[i]
  BY <1>1
<1>4. DOMAIN c = 1..Len(c)
  BY <1>1
<1> HIDE DEF d, S
<1>5. d \in Seq(ToSet(d))
  BY <1>3 DEF ToSet
<1>6. ValidChain(d)
  <2> SUFFICES ASSUME NEW i \in DOMAIN d
               PROVE  /\ d[i].index = i - 1
                      /\ i > 1 => d[i].previous = d[i - 1].current
                      /\ d[i].current = HashOf(d[i].index, d[i].id, d[i].data, d[i].previous)
    BY DEF ValidChain
  <2>1. CASE i \in 1..Len(c)
    <3>1. d[i] = c[i] /\ (i > 1 => d[i - 1] = c[i - 1])
      BY <1>1, <1>3, <2>1
    <3> QED BY <1>4, <2>1, <3>1 DEF Sound, ValidChain
  <2>2. CASE i = Len(c) + 1
    <3>1. i > 1 => d[i - 1] = c[Len(c)] /\ c # << >>
      BY <1>1, <1>3, <2>2
    <3>2. i > 1 => e.previous = c[Len(c)].current
      BY <1>1, <1>2, <3>1 DEF LastHash, Last
    <3> QED BY <1>1, <1>2, <1>3, <2>2, <3>1, <3>2
  <2> QED BY <1>1, <1>3, <2>1, <2>2
<1>7. IdsOf(d) = IdsOf(c) \cup {a.id}
  <2>1. \A i \in 1..(Len(c) + 1) : i \in 1..Len(c) \/ i = Len(c) + 1
    BY <1>1
  <2>2. 1..Len(c) \subseteq 1..(Len(c) + 1) /\ Len(c) + 1 \in 1..(Len(c) + 1)
    BY <1>1
  <2> QED BY <1>2, <1>3, <1>4, <2>1, <2>2 DEF IdsOf
<1> QED BY <1>3, <1>5, <1>6, <1>7 DEF Sound, d, e

LEMMA EmptySound == Sound(<< >>)
BY DEF Sound, ValidChain, ToSet

LEMMA EmptyTuple == Len(<< >>) = 0
OBVIOUS

\* What is left of a window when its first alert is done.
LEMMA TailOfBatch ==
    ASSUME NEW S, NEW s \in Seq(S), s # << >>
    PROVE  /\ Head(s) \in S /\ 1 \in DOMAIN s /\ Head(s) = s[1]
           /\ Tail(s) \in Seq(S)
           /\ Len(s) # 1 => Tail(s) # << >>
           /\ \A i \in DOMAIN Tail(s) : i + 1 \in DOMAIN s /\ Tail(s)[i] = s[i + 1]
<1>1. Len(s) \in Nat /\ Len(s) # 0 /\ DOMAIN s = 1..Len(s)
  OBVIOUS
<1>2. Tail(s) \in Seq(S) /\ Len(Tail(s)) = Len(s) - 1
  BY <1>1
<1>3. ASSUME Len(s) # 1 PROVE Tail(s) # << >>
  <2>1. Len(Tail(s)) # 0
    BY <1>1, <1>2, <1>3
  <2> QED BY <2>1, EmptyTuple
<1>4. Head(s) \in S /\ 1 \in DOMAIN s /\ Head(s) = s[1]
  BY <1>1
<1>5. \A i \in DOMAIN Tail(s) : i + 1 \in DOMAIN s /\ Tail(s)[i] = s[i + 1]
  BY <1>1, <1>2
<1> QED BY <1>2, <1>3, <1>4, <1>5

-----------------------------------------------------------------------------
(***************************************************************************)
(* The inductive invariant.                                                *)
(***************************************************************************)
\* The types that the steps need, and the chains, in memory and in the file.
Chains ==
    /\ pc \in [Pipelines -> {"idle", "call", "store", "append", "save", "write"}]
    /\ chain = [p \in Pipelines |-> chain[p]]
    /\ batch \in [Pipelines -> Seq([id : Nat])]
    /\ \A p \in Pipelines : pc[p] \in {"store", "append", "save", "write"} => batch[p] # << >>
    /\ issued \in Nat
    /\ \A p \in Pipelines : Sound(chain[p])
    /\ Sound(stored)

\* The alert in work is in the chain when its entry is to be saved.
InWork ==
    \A p \in Pipelines :
        pc[p] \in {"save", "write"} => Head(batch[p]).id \in IdsOf(chain[p])

InHand(p) == IdsOf(batch[p])

\* The alerts that add_alerts has dealt with, whatever came of it.
Settled == db \cup unstored \cup removed

\* No id is used twice, an alert is settled once, by the one pipeline that has
\* it in hand, and nothing comes to a chain before it is settled.
Reconciled ==
    /\ \A p \in Pipelines :
        /\ InHand(p) \subseteq 1..issued
        /\ pc[p] \in {"idle", "call"} => batch[p] = << >>
        /\ pc[p] = "store" => InHand(p) \cap Settled = {}
        /\ pc[p] \in {"append", "save", "write"} => InHand(p) \subseteq Settled
        /\ \A q \in Pipelines \ {p} : InHand(p) \cap InHand(q) = {}
    /\ Settled \subseteq 1..issued
    /\ db \cap (unstored \cup removed) = {}
    /\ Appended \subseteq Settled
    /\ db \subseteq returned \cup UNION {InHand(p) : p \in Pipelines}

\* As long as no two pipelines exist at one time, the one that exists has
\* everything in memory, and finds the file as it left it.
Alone ==
    ~ overlap =>
        /\ \A p, q \in Pipelines : pc[p] # "idle" /\ pc[q] # "idle" => p = q
        /\ \A p \in Pipelines :
            /\ pc[p] # "idle" => returned \subseteq IdsOf(chain[p])
            /\ pc[p] = "write" => text = 0
        /\ (\A p \in Pipelines : pc[p] # "write") =>
            readable /\ returned \subseteq IdsOf(stored)

\* Chains is inductive by itself, InWork and Alone with it.
LEMMA ChainsInductive ==
    /\ Init => Chains
    /\ Chains /\ [Next]_vars => Chains'
<1>1. ASSUME Init PROVE Chains
  BY <1>1, EmptySound DEF Init, Chains
<1>2. ASSUME Chains, [Next]_vars PROVE Chains'
  <2>1. CASE UNCHANGED vars
    BY <1>2, <2>1 DEF vars, Chains
  <2>2. ASSUME NEW p \in Pipelines, Construct(p) PROVE Chains'
    BY <1>2, <2>2 DEF Construct, At, Chains
  <2>3. ASSUME NEW p \in Pipelines, NEW n \in 1..MaxBatch, Window(p, n) PROVE Chains'
    <3> DEFINE w == [i \in 1..n |-> [id |-> issued + i]]
    <3>0. n \in Nat /\ n # 0 /\ issued \in Nat
      BY <1>2 DEF Chains
    <3>1. issued + n \in Nat /\ w \in Seq([id : Nat]) /\ Len(w) # 0
      BY <3>0
    <3>2. batch' = [batch EXCEPT ![p] = w]
      BY <2>3 DEF Window
    <3> HIDE DEF w
    <3>3. w # << >>
      BY <3>1, EmptyTuple
    <3> QED BY <1>2, <2>3, <3>1, <3>2, <3>3 DEF Window, At, Chains
  <2>4. ASSUME NEW p \in Pipelines, Store(p) PROVE Chains'
    BY <1>2, <2>4 DEF Store, At, Chains
  <2>5. ASSUME NEW p \in Pipelines, AppendEntry(p) PROVE Chains'
    <3> DEFINE d == Append(chain[p], Entry(chain[p], Head(batch[p])))
    <3>1. Sound(d)
      BY <1>2, AppendSound DEF Chains
    <3> HIDE DEF d
    <3>2. chain' = [chain EXCEPT ![p] = d]
      BY <2>5 DEF AppendEntry, d
    <3> QED BY <1>2, <2>5, <3>1, <3>2 DEF AppendEntry, At, Chains
  <2>6. ASSUME NEW p \in Pipelines, SaveOpens(p) PROVE Chains'
    BY <1>2, <2>6, EmptySound DEF SaveOpens, At, Chains
  <2>7. ASSUME NEW p \in Pipelines, SaveCloses(p) PROVE Chains'
    <3>1. batch[p] \in Seq([id : Nat]) /\ batch[p] # << >>
      BY <1>2, <2>7 DEF SaveCloses, At, Chains
    <3>2. Tail(batch[p]) \in Seq([id : Nat]) /\ (Len(batch[p]) # 1 => Tail(batch[p]) # << >>)
      BY <3>1, TailOfBatch
    <3>3. batch' = [batch EXCEPT ![p] = Tail(@)] /\ (stored' = << >> \/ stored' = chain[p])
      BY <2>7 DEF SaveCloses
    <3> QED BY <1>2, <2>7, <3>2, <3>3, EmptySound DEF SaveCloses, At, Chains
  <2>8. ASSUME NEW p \in Pipelines, Finish(p) PROVE Chains'
    BY <1>2, <2>8, EmptySound DEF Finish, At, Chains
  <2>9. ASSUME NEW p \in Pipelines, StoreFails(p) PROVE Chains'
    BY <1>2, <2>9 DEF StoreFails, At, Chains
  <2>10. ASSUME NEW ids, Delete(ids) PROVE Chains'
    BY <1>2, <2>10 DEF Delete, Chains
  <2> QED BY <1>2, <2>1, <2>2, <2>3, <2>4, <2>5, <2>6, <2>7, <2>8, <2>9, <2>10 DEF Next, Step
<1> QED BY <1>1, <1>2

LEMMA InWorkInductive ==
    /\ Init => InWork
    /\ Chains /\ InWork /\ [Next]_vars => InWork'
<1>1. ASSUME Init PROVE InWork
  BY <1>1 DEF Init, InWork
<1>2. ASSUME Chains, InWork, [Next]_vars PROVE InWork'
  <2>1. CASE UNCHANGED vars
    BY <1>2, <2>1 DEF vars, InWork
  <2>2. ASSUME NEW p \in Pipelines, Construct(p) PROVE InWork'
    BY <1>2, <2>2 DEF Construct, At, Chains, InWork
  <2>3. ASSUME NEW p \in Pipelines, NEW n \in 1..MaxBatch, Window(p, n) PROVE InWork'
    BY <1>2, <2>3 DEF Window, At, Chains, InWork
  <2>4. ASSUME NEW p \in Pipelines, Store(p) PROVE InWork'
    BY <1>2, <2>4 DEF Store, At, Chains, InWork
  <2>5. ASSUME NEW p \in Pipelines, AppendEntry(p) PROVE InWork'
    <3> DEFINE d == Append(chain[p], Entry(chain[p], Head(batch[p])))
    <3>1. Head(batch[p]).id \in IdsOf(d)
      BY <1>2, AppendSound DEF Chains
    <3> HIDE DEF d
    <3>2. chain' = [chain EXCEPT ![p] = d]
      BY <2>5 DEF AppendEntry, d
    <3>3. pc' = [pc EXCEPT ![p] = "save"] /\ UNCHANGED batch
      BY <2>5 DEF AppendEntry, At
    <3> QED BY <1>2, <3>1, <3>2, <3>3 DEF Chains, InWork
  <2>6. ASSUME NEW p \in Pipelines, SaveOpens(p) PROVE InWork'
    BY <1>2, <2>6 DEF SaveOpens, At, Chains, InWork
  <2>7. ASSUME NEW p \in Pipelines, SaveCloses(p) PROVE InWork'
    <3> DEFINE rest == Tail(batch[p])
    <3>1. batch' = [batch EXCEPT ![p] = rest] /\ UNCHANGED chain
          /\ (pc' = [pc EXCEPT ![p] = "call"] \/ pc' = [pc EXCEPT ![p] = "append"])
      BY <2>7 DEF SaveCloses, At
    <3> HIDE DEF rest
    <3> QED BY <1>2, <3>1 DEF Chains, InWork
  <2>8. ASSUME NEW p \in Pipelines, Finish(p) PROVE InWork'
    BY <1>2, <2>8 DEF Finish, At, Chains, InWork
  <2>9. ASSUME NEW p \in Pipelines, StoreFails(p) PROVE InWork'
    BY <1>2, <2>9 DEF StoreFails, At, Chains, InWork
  <2>10. ASSUME NEW ids, Delete(ids) PROVE InWork'
    BY <1>2, <2>10 DEF Delete, InWork
  <2> QED BY <1>2, <2>1, <2>2, <2>3, <2>4, <2>5, <2>6, <2>7, <2>8, <2>9, <2>10 DEF Next, Step
<1> QED BY <1>1, <1>2

LEMMA EmptyIds == IdsOf(<< >>) = {}
BY EmptyTuple DEF IdsOf

LEMMA NoneLeft ==
    ASSUME NEW S, NEW s \in Seq(S), Len(s) = 0
    PROVE  s = << >>
OBVIOUS

\* The id of the first alert of a window and those of the rest.
LEMMA IdsOfTail ==
    ASSUME NEW S, NEW s \in Seq(S), s # << >>
    PROVE  /\ IdsOf(s) = {Head(s).id} \cup IdsOf(Tail(s))
           /\ Len(s) = 1 => Tail(s) = << >>
<1>1. Len(s) \in Nat /\ Len(s) # 0 /\ DOMAIN s = 1..Len(s) /\ Head(s) = s[1]
  OBVIOUS
<1>2. Tail(s) \in Seq(S) /\ Len(Tail(s)) = Len(s) - 1
  BY <1>1
<1>3. DOMAIN Tail(s) = 1..(Len(s) - 1) /\ \A i \in 1..(Len(s) - 1) : Tail(s)[i] = s[i + 1]
  BY <1>1, <1>2
<1>4. ASSUME NEW i \in DOMAIN s PROVE s[i].id \in {Head(s).id} \cup IdsOf(Tail(s))
  <2>1. CASE i = 1
    BY <1>1, <2>1
  <2>2. CASE i # 1
    <3>1. i - 1 \in DOMAIN Tail(s) /\ (i - 1) + 1 = i
      BY <1>1, <1>3, <2>2
    <3>2. Tail(s)[i - 1] = s[i]
      BY <1>3, <3>1
    <3> QED BY <3>1, <3>2 DEF IdsOf
  <2> QED BY <2>1, <2>2
<1>5. ASSUME NEW i \in DOMAIN Tail(s) PROVE Tail(s)[i].id \in IdsOf(s)
  BY <1>1, <1>3, <1>5 DEF IdsOf
<1>6. Head(s).id \in IdsOf(s)
  BY <1>1 DEF IdsOf
<1>7. ASSUME Len(s) = 1 PROVE Tail(s) = << >>
  <2>1. Len(Tail(s)) = 0
    BY <1>2, <1>7
  <2> QED BY <1>2, <2>1, NoneLeft
<1> QED BY <1>4, <1>5, <1>6, <1>7 DEF IdsOf

\* The ids of a new window.
LEMMA IdsOfWindow ==
    ASSUME NEW n \in Nat, NEW k \in Nat
    PROVE  \A id \in IdsOf([i \in 1..n |-> [id |-> k + i]]) : id \in (k + 1)..(k + n)
BY DEF IdsOf

\* A step that leaves everything as it is that Reconciled speaks of, but pc,
\* and moves at most within the part where the alerts in hand are settled.
LEMMA ReconciledKept ==
    ASSUME Reconciled, UNCHANGED << batch, db, unstored, removed, returned, issued >>,
           Appended' \subseteq Settled,
           \A p \in Pipelines :
              \/ pc'[p] = pc[p]
              \/ {pc[p], pc'[p]} \subseteq {"idle", "call"}
              \/ {pc[p], pc'[p]} \subseteq {"append", "save", "write"}
    PROVE  Reconciled'
<1>1. Settled' = Settled /\ \A p \in Pipelines : InHand(p)' = InHand(p)
  BY DEF Settled, InHand
<1>2. ASSUME NEW p \in Pipelines
      PROVE  /\ InHand(p)' \subseteq 1..issued'
             /\ pc'[p] \in {"idle", "call"} => batch'[p] = << >>
             /\ pc'[p] = "store" => InHand(p)' \cap Settled' = {}
             /\ pc'[p] \in {"append", "save", "write"} => InHand(p)' \subseteq Settled'
             /\ \A q \in Pipelines \ {p} : InHand(p)' \cap InHand(q)' = {}
  <2>1. \/ pc'[p] = pc[p]
        \/ {pc[p], pc'[p]} \subseteq {"idle", "call"}
        \/ {pc[p], pc'[p]} \subseteq {"append", "save", "write"}
    OBVIOUS
  <2>2. pc'[p] = "store" => pc[p] = "store"
    BY <2>1
  <2>3. pc'[p] \in {"idle", "call"} => pc[p] \in {"idle", "call"}
    BY <2>1
  <2>4. pc'[p] \in {"append", "save", "write"} => pc[p] \in {"append", "save", "write"}
    BY <2>1
  <2> QED BY <1>1, <2>2, <2>3, <2>4 DEF Reconciled
<1>3. db' \subseteq returned' \cup UNION {InHand(p)' : p \in Pipelines}
  BY <1>1 DEF Reconciled
<1> QED BY <1>1, <1>2, <1>3 DEF Reconciled

LEMMA ReconciledInductive ==
    /\ Init => Reconciled
    /\ Chains /\ Reconciled /\ [Next]_vars => Reconciled'
<1>1. ASSUME Init PROVE Reconciled
  BY <1>1, EmptyIds DEF Init, Reconciled, InHand, Settled, Appended
<1>2. ASSUME Chains, Reconciled, [Next]_vars PROVE Reconciled'
  <2>0. Appended \subseteq Settled
    BY <1>2 DEF Reconciled
  <2>1. CASE UNCHANGED vars
    <3>1. UNCHANGED << pc, chain, stored, batch, db, unstored, removed, returned, issued >>
      BY <2>1 DEF vars, rows
    <3>2. Appended' = Appended
      BY <3>1 DEF Appended
    <3> QED BY <1>2, <2>0, <3>1, <3>2, ReconciledKept
  <2>2. ASSUME NEW p \in Pipelines, Construct(p) PROVE Reconciled'
    <3>1. /\ chain' = [chain EXCEPT ![p] = stored]
          /\ pc[p] = "idle" /\ pc' = [pc EXCEPT ![p] = "call"]
          /\ UNCHANGED << stored, batch, db, unstored, removed, returned, issued >>
      BY <2>2 DEF Construct, At, rows
    <3>2. \A q \in Pipelines : IdsOf(chain'[q]) \subseteq Settled
      BY <1>2, <2>0, <3>1 DEF Chains, Appended
    <3>3. Appended' \subseteq Settled
      BY <2>0, <3>1, <3>2 DEF Appended
    <3>4. \A q \in Pipelines : pc'[q] = pc[q] \/ {pc[q], pc'[q]} \subseteq {"idle", "call"}
      BY <1>2, <3>1 DEF Chains
    <3> QED BY <1>2, <3>1, <3>3, <3>4, ReconciledKept
  <2>3. ASSUME NEW p \in Pipelines, Finish(p) PROVE Reconciled'
    <3>1. /\ chain' = [chain EXCEPT ![p] = << >>]
          /\ pc[p] = "call" /\ pc' = [pc EXCEPT ![p] = "idle"]
          /\ UNCHANGED << stored, batch, db, unstored, removed, returned, issued >>
      BY <2>3 DEF Finish, At, rows
    <3>2. \A q \in Pipelines : IdsOf(chain'[q]) \subseteq Settled
      BY <1>2, <2>0, <3>1, EmptyIds DEF Chains, Appended
    <3>3. Appended' \subseteq Settled
      BY <2>0, <3>1, <3>2 DEF Appended
    <3>4. \A q \in Pipelines : pc'[q] = pc[q] \/ {pc[q], pc'[q]} \subseteq {"idle", "call"}
      BY <1>2, <3>1 DEF Chains
    <3> QED BY <1>2, <3>1, <3>3, <3>4, ReconciledKept
  <2>4. ASSUME NEW p \in Pipelines, AppendEntry(p) PROVE Reconciled'
    <3> DEFINE d == Append(chain[p], Entry(chain[p], Head(batch[p])))
    <3>1. IdsOf(d) = IdsOf(chain[p]) \cup {Head(batch[p]).id}
      BY <1>2, AppendSound DEF Chains
    <3>2. chain' = [chain EXCEPT ![p] = d]
      BY <2>4 DEF AppendEntry
    <3>3. /\ pc[p] = "append" /\ pc' = [pc EXCEPT ![p] = "save"]
          /\ UNCHANGED << stored, batch, db, unstored, removed, returned, issued >>
      BY <2>4 DEF AppendEntry, At, rows
    <3>4. Head(batch[p]).id \in Settled
      <4>1. batch[p] \in Seq([id : Nat]) /\ batch[p] # << >>
        BY <1>2, <3>3 DEF Chains
      <4>2. Head(batch[p]).id \in InHand(p)
        BY <4>1, IdsOfTail DEF InHand
      <4> QED BY <1>2, <3>3, <4>2 DEF Reconciled
    <3> HIDE DEF d
    <3>5. \A q \in Pipelines : IdsOf(chain'[q]) \subseteq Settled
      BY <1>2, <2>0, <3>1, <3>2, <3>4 DEF Chains, Appended
    <3>6. Appended' \subseteq Settled
      BY <2>0, <3>3, <3>5 DEF Appended
    <3>7. \A q \in Pipelines :
            pc'[q] = pc[q] \/ {pc[q], pc'[q]} \subseteq {"append", "save", "write"}
      BY <1>2, <3>3 DEF Chains
    <3> QED BY <1>2, <3>3, <3>6, <3>7, ReconciledKept
  <2>5. ASSUME NEW p \in Pipelines, SaveOpens(p) PROVE Reconciled'
    <3>1. /\ stored' = << >> /\ chain' = chain
          /\ pc[p] = "save" /\ pc' = [pc EXCEPT ![p] = "write"]
          /\ UNCHANGED << batch, db, unstored, removed, returned, issued >>
      BY <2>5 DEF SaveOpens, At, rows
    <3>2. Appended' \subseteq Settled
      BY <2>0, <3>1, EmptyIds DEF Appended
    <3>3. \A q \in Pipelines :
            pc'[q] = pc[q] \/ {pc[q], pc'[q]} \subseteq {"append", "save", "write"}
      BY <1>2, <3>1 DEF Chains
    <3> QED BY <1>2, <3>1, <3>2, <3>3, ReconciledKept
  <2>6. ASSUME NEW p \in Pipelines, NEW n \in 1..MaxBatch, Window(p, n) PROVE Reconciled'
    <3> DEFINE w == [i \in 1..n |-> [id |-> issued + i]]
    <3>1. n \in Nat /\ issued \in Nat
      BY <1>2 DEF Chains
    <3>2. IdsOf(w) \subseteq (issued + 1)..(issued + n)
      BY <3>1, IdsOfWindow
    <3>3. /\ batch' = [batch EXCEPT ![p] = w] /\ issued' = issued + n
          /\ pc[p] = "call" /\ pc' = [pc EXCEPT ![p] = "store"]
          /\ UNCHANGED << stored, chain, db, unstored, removed, returned >>
      BY <2>6 DEF Window, At, rows
    <3> HIDE DEF w
    <3>4. /\ InHand(p)' = IdsOf(w) /\ pc'[p] = "store" /\ InHand(p) = {}
          /\ \A q \in Pipelines \ {p} : InHand(q)' = InHand(q) /\ batch'[q] = batch[q] /\ pc'[q] = pc[q]
      BY <1>2, <3>3, EmptyIds DEF Chains, InHand, Reconciled
    <3>5. Settled' = Settled /\ Appended' = Appended
      BY <3>3 DEF Settled, Appended
    <3>6. /\ 1..issued \subseteq 1..issued' /\ (issued + 1)..(issued + n) \subseteq 1..issued'
          /\ (issued + 1)..(issued + n) \cap 1..issued = {}
      BY <3>1, <3>3
    <3>7. /\ Settled \subseteq 1..issued
          /\ \A q \in Pipelines : InHand(q) \subseteq 1..issued
      BY <1>2 DEF Reconciled
    <3>8. IdsOf(w) \subseteq 1..issued' /\ IdsOf(w) \cap 1..issued = {}
      BY <3>2, <3>6
    <3>9. ASSUME NEW q \in Pipelines
          PROVE  /\ InHand(q)' \subseteq 1..issued'
                 /\ pc'[q] \in {"idle", "call"} => batch'[q] = << >>
                 /\ pc'[q] = "store" => InHand(q)' \cap Settled' = {}
                 /\ pc'[q] \in {"append", "save", "write"} => InHand(q)' \subseteq Settled'
                 /\ \A o \in Pipelines \ {q} : InHand(q)' \cap InHand(o)' = {}
      <4>1. CASE q = p
        BY <3>4, <3>5, <3>7, <3>8, <4>1
      <4>2. CASE q # p
        <5>1. /\ InHand(q)' = InHand(q) /\ pc'[q] = pc[q] /\ batch'[q] = batch[q]
          BY <3>4, <4>2
        <5>2. \A o \in Pipelines \ {q} : InHand(q)' \cap InHand(o)' = {}
          BY <1>2, <3>4, <3>7, <3>8, <4>2, <5>1 DEF Reconciled
        <5>3. InHand(q)' \subseteq 1..issued'
          BY <3>6, <3>7, <5>1
        <5> QED BY <1>2, <3>5, <5>1, <5>2, <5>3 DEF Reconciled
      <4> QED BY <4>1, <4>2
    <3>10. /\ Settled' \subseteq 1..issued' /\ Appended' \subseteq Settled'
           /\ db' \cap (unstored' \cup removed') = {}
      BY <1>2, <3>3, <3>5, <3>6, <3>7 DEF Reconciled
    <3>11. db' \subseteq returned' \cup UNION {InHand(q)' : q \in Pipelines}
      BY <1>2, <3>3, <3>4 DEF Reconciled
    <3> QED BY <3>9, <3>10, <3>11 DEF Reconciled
  <2>7. ASSUME NEW p \in Pipelines, Store(p) \/ StoreFails(p) PROVE Reconciled'
    <3>1. /\ pc[p] = "store" /\ pc' = [pc EXCEPT ![p] = "append"]
          /\ UNCHANGED << stored, chain, batch, removed, returned, issued >>
          /\ \/ db' = db \cup InHand(p) /\ unstored' = unstored
             \/ unstored' = unstored \cup InHand(p) /\ db' = db
      BY <2>7 DEF Store, StoreFails, At, InHand
    <3>2. /\ \A q \in Pipelines : InHand(q)' = InHand(q) /\ batch'[q] = batch[q]
          /\ pc'[p] = "append" /\ \A q \in Pipelines \ {p} : pc'[q] = pc[q]
          /\ Settled' = Settled \cup InHand(p) /\ Appended' = Appended
      BY <1>2, <3>1 DEF Chains, InHand, Settled, Appended
    <3>3. ASSUME NEW q \in Pipelines
          PROVE  /\ InHand(q)' \subseteq 1..issued'
                 /\ pc'[q] \in {"idle", "call"} => batch'[q] = << >>
                 /\ pc'[q] = "store" => InHand(q)' \cap Settled' = {}
                 /\ pc'[q] \in {"append", "save", "write"} => InHand(q)' \subseteq Settled'
                 /\ \A o \in Pipelines \ {q} : InHand(q)' \cap InHand(o)' = {}
      <4>1. CASE q = p
        BY <1>2, <3>1, <3>2, <4>1 DEF Reconciled
      <4>2. CASE q # p
        <5>1. InHand(q) \cap InHand(p) = {} /\ pc'[q] = pc[q]
          BY <1>2, <3>2, <4>2 DEF Reconciled
        <5> QED BY <1>2, <3>1, <3>2, <5>1 DEF Reconciled
      <4> QED BY <4>1, <4>2
    <3>4. Settled' \subseteq 1..issued' /\ Appended' \subseteq Settled'
      BY <1>2, <3>1, <3>2 DEF Reconciled
    <3>5. db' \cap (unstored' \cup removed') = {}
      BY <1>2, <3>1 DEF Reconciled, Settled
    <3>6. db' \subseteq returned' \cup UNION {InHand(q)' : q \in Pipelines}
      BY <1>2, <3>1, <3>2 DEF Reconciled
    <3> QED BY <3>3, <3>4, <3>5, <3>6 DEF Reconciled
  <2>8. ASSUME NEW p \in Pipelines, SaveCloses(p) PROVE Reconciled'
    <3> DEFINE rest == Tail(batch[p])
               id == Head(batch[p]).id
    <3>1. batch[p] \in Seq([id : Nat]) /\ batch[p] # << >> /\ pc[p] = "write"
      BY <1>2, <2>8 DEF SaveCloses, At, Chains
    <3>2. InHand(p) = {id} \cup IdsOf(rest) /\ (Len(batch[p]) = 1 => rest = << >>)
      BY <3>1, IdsOfTail DEF InHand
    <3>3. /\ batch' = [batch EXCEPT ![p] = rest] /\ returned' = returned \cup {id}
          /\ pc' = [pc EXCEPT ![p] = IF Len(batch[p]) = 1 THEN "call" ELSE "append"]
          /\ stored' = << >> \/ stored' = chain[p]
          /\ UNCHANGED << chain, db, unstored, removed, issued >>
      BY <2>8 DEF SaveCloses, At, rows
    <3> HIDE DEF rest, id
    <3>4. /\ InHand(p)' = IdsOf(rest) /\ batch'[p] = rest
          /\ pc'[p] = (IF Len(batch[p]) = 1 THEN "call" ELSE "append")
          /\ \A q \in Pipelines \ {p} : InHand(q)' = InHand(q) /\ batch'[q] = batch[q] /\ pc'[q] = pc[q]
      BY <1>2, <3>3 DEF Chains, InHand
    <3>5. Settled' = Settled /\ InHand(p) \subseteq Settled
      BY <1>2, <3>1, <3>3 DEF Settled, Reconciled
    <3>6. Appended' \subseteq Settled'
      <4>1. IdsOf(stored') \subseteq Settled
        BY <2>0, <3>3, EmptyIds DEF Appended
      <4>2. id \in Settled
        BY <3>2, <3>5
      <4> QED BY <2>0, <3>3, <3>5, <4>1, <4>2 DEF Appended
    <3>7. ASSUME NEW q \in Pipelines
          PROVE  /\ InHand(q)' \subseteq 1..issued'
                 /\ pc'[q] \in {"idle", "call"} => batch'[q] = << >>
                 /\ pc'[q] = "store" => InHand(q)' \cap Settled' = {}
                 /\ pc'[q] \in {"append", "save", "write"} => InHand(q)' \subseteq Settled'
                 /\ \A o \in Pipelines \ {q} : InHand(q)' \cap InHand(o)' = {}
      <4>1. InHand(q)' \subseteq InHand(q) /\ \A o \in Pipelines : InHand(o)' \subseteq InHand(o)
        BY <3>2, <3>4
      <4>2. CASE q = p
        BY <1>2, <3>2, <3>3, <3>4, <3>5, <4>1, <4>2 DEF Reconciled
      <4>3. CASE q # p
        BY <1>2, <3>3, <3>4, <3>5, <4>1, <4>3 DEF Reconciled
      <4> QED BY <4>2, <4>3
    <3>8. db' \subseteq returned' \cup UNION {InHand(q)' : q \in Pipelines}
      <4> SUFFICES ASSUME NEW k \in db, k \notin returned, k # id
                   PROVE  \E q \in Pipelines : k \in InHand(q)'
        BY <3>3
      <4>1. PICK q \in Pipelines : k \in InHand(q)
        BY <1>2 DEF Reconciled
      <4> QED BY <3>2, <3>4, <4>1
    <3>9. Settled' \subseteq 1..issued' /\ db' \cap (unstored' \cup removed') = {}
      BY <1>2, <3>3, <3>5 DEF Reconciled
    <3> QED BY <3>6, <3>7, <3>8, <3>9 DEF Reconciled
  <2>9. ASSUME NEW ids \in SUBSET db, Delete(ids) PROVE Reconciled'
    <3>1. /\ db' = db \ ids /\ removed' = removed \cup ids
          /\ UNCHANGED << pc, chain, stored, batch, unstored, returned, issued >>
      BY <2>9 DEF Delete
    <3>2. /\ \A q \in Pipelines : InHand(q)' = InHand(q)
          /\ Settled' = Settled /\ Appended' = Appended
      BY <3>1 DEF InHand, Settled, Appended
    <3>3. db' \cap (unstored' \cup removed') = {}
      BY <1>2, <3>1 DEF Reconciled
    <3>4. db' \subseteq returned' \cup UNION {InHand(q)' : q \in Pipelines}
      BY <1>2, <3>1, <3>2 DEF Reconciled
    <3> QED BY <1>2, <3>1, <3>2, <3>3, <3>4 DEF Reconciled
  <2>10. CASE (\E id \in db : Delete({id})) \/ Delete(db)
    BY <2>9, <2>10
  <2> QED BY <1>2, <2>1, <2>2, <2>3, <2>4, <2>5, <2>6, <2>7, <2>8, <2>10 DEF Next, Step
<1> QED BY <1>1, <1>2

LEMMA AloneInductive ==
    /\ Init => Alone
    /\ Chains /\ InWork /\ Alone /\ [Next]_vars => Alone'
<1>1. ASSUME Init PROVE Alone
  BY <1>1 DEF Init, Alone
<1>2. ASSUME Chains, InWork, Alone, [Next]_vars PROVE Alone'
  <2>1. CASE UNCHANGED vars
    BY <1>2, <2>1 DEF vars, Alone
  <2>2. ASSUME NEW p \in Pipelines, Construct(p) PROVE Alone'
    <3> SUFFICES ASSUME ~ overlap' PROVE Alone'
      BY DEF Alone
    <3>1. ~ overlap /\ \A q \in Pipelines : pc[q] = "idle"
      BY <2>2 DEF Construct, At
    <3>2. returned \subseteq IdsOf(stored)
      BY <1>2, <3>1 DEF Alone
    <3> QED BY <1>2, <2>2, <3>1, <3>2 DEF Construct, At, Chains, Alone
  <2>3. ASSUME NEW p \in Pipelines, NEW n \in 1..MaxBatch, Window(p, n) PROVE Alone'
    BY <1>2, <2>3 DEF Window, At, Chains, Alone
  <2>4. ASSUME NEW p \in Pipelines, Store(p) PROVE Alone'
    BY <1>2, <2>4 DEF Store, At, Chains, Alone
  <2>5. ASSUME NEW p \in Pipelines, AppendEntry(p) PROVE Alone'
    <3> DEFINE d == Append(chain[p], Entry(chain[p], Head(batch[p])))
    <3>1. IdsOf(chain[p]) \subseteq IdsOf(d)
      BY <1>2, AppendSound DEF Chains
    <3> HIDE DEF d
    <3>2. chain' = [chain EXCEPT ![p] = d]
      BY <2>5 DEF AppendEntry, d
    <3> QED BY <1>2, <2>5, <3>1, <3>2 DEF AppendEntry, At, Chains, Alone
  <2>6. ASSUME NEW p \in Pipelines, SaveOpens(p) PROVE Alone'
    BY <1>2, <2>6 DEF SaveOpens, At, Chains, Alone
  <2>7. ASSUME NEW p \in Pipelines, SaveCloses(p) PROVE Alone'
    <3> SUFFICES ASSUME ~ overlap' PROVE Alone'
      BY DEF Alone
    <3>1. ~ overlap /\ pc[p] = "write" /\ text = 0 /\ \A q \in Pipelines : pc[q] # "idle" => q = p
      BY <1>2, <2>7 DEF SaveCloses, At, Alone
    <3>2. Len(chain[p]) \in Nat
      BY <1>2 DEF Chains, Sound
    <3>3. readable' /\ stored' = chain[p] /\ chain' = chain
      BY <2>7, <3>1, <3>2 DEF SaveCloses
    <3>4. returned' \subseteq IdsOf(chain[p])
      BY <1>2, <2>7, <3>1 DEF SaveCloses, InWork, Alone
    <3>5. pc' = [pc EXCEPT ![p] = "call"] \/ pc' = [pc EXCEPT ![p] = "append"]
      BY <2>7 DEF SaveCloses, At
    <3> QED BY <1>2, <3>1, <3>3, <3>4, <3>5 DEF Chains, Alone
  <2>8. ASSUME NEW p \in Pipelines, Finish(p) PROVE Alone'
    BY <1>2, <2>8 DEF Finish, At, Chains, Alone
  <2>9. ASSUME NEW p \in Pipelines, StoreFails(p) PROVE Alone'
    BY <1>2, <2>9 DEF StoreFails, At, Chains, Alone
  <2>10. ASSUME NEW ids, Delete(ids) PROVE Alone'
    BY <1>2, <2>10 DEF Delete, Alone
  <2> QED BY <1>2, <2>1, <2>2, <2>3, <2>4, <2>5, <2>6, <2>7, <2>8, <2>9, <2>10 DEF Next, Step
<1> QED BY <1>1, <1>2

-----------------------------------------------------------------------------
\* Every execution satisfies the four parts of the invariant.
LEMMA InvariantHolds == Spec => [](Chains /\ InWork /\ Reconciled /\ Alone)
<1>1. Init => Chains /\ InWork /\ Reconciled /\ Alone
  BY ChainsInductive, InWorkInductive, ReconciledInductive, AloneInductive
<1>2. Chains /\ InWork /\ Reconciled /\ Alone /\ [Next]_vars
        => (Chains /\ InWork /\ Reconciled /\ Alone)'
  BY ChainsInductive, InWorkInductive, ReconciledInductive, AloneInductive
<1> QED BY <1>1, <1>2, PTL DEF Spec

\* However many pipelines rewrite the chain file, every chain that one of them
\* holds or the file contains passes validate_chain: what is lost is not seen.
THEOREM ValidationHidesLoss == Spec => []EveryChainValid
<1>1. Chains => EveryChainValid
  BY DEF Chains, Sound, EveryChainValid
<1> QED BY <1>1, InvariantHolds, PTL

\* Without a second pipeline at the same time, the chain file keeps every
\* alert whose append returned, over any number of pipelines in turn.
THEOREM TurnsLoseNothing == Spec => []OneWriterKeepsAll
<1>1. Alone => OneWriterKeepsAll
  BY DEF Alone, OneWriterKeepsAll, SavedStays
<1> QED BY <1>1, InvariantHolds, PTL

\* Whatever pipelines do to each other's chains, and however often commits fail
\* and rows are deleted in between, an alert that came to any chain is a row of
\* the database exactly if its commit did not fail and it was not deleted, and
\* no row is of an alert that was neither appended nor is in hand.
THEOREM RowsAreReconciled == Spec => []RowsReconciled
<1>1. Reconciled => RowsReconciled
  BY DEF Reconciled, InHand, Settled, RowsReconciled
<1> QED BY <1>1, InvariantHolds, PTL

=============================================================================
