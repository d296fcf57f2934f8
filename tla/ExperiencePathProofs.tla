------------------------- MODULE ExperiencePathProofs -------------------------
(***************************************************************************)
(* Proofs about the experience server: the life of a gene                  *)
(* (ExperienceLifecycle) and the door before it (AccessPath), for any      *)
(* number of processes, requests, keys and receipts and any limits.        *)
(***************************************************************************)
EXTENDS ExperiencePath, FiniteSetTheorems, SequenceTheorems, WellFoundedInduction, TLAPS

-----------------------------------------------------------------------------
(* The inductive invariant of the gene. *)

Holding == {"insert", "stats", "write", "govern"}

Proud(g) == g.lifecycle = "stable" \/ g.scope = "shared"

\* A stable gene has no safety failure on record and no two failures at the end.
Sound(g) ==
    \/ g.lifecycle # "stable"
    \/ With(receipts, {"safety_failed"}) = {} /\ Consecutive(receipts) < 2

\* A call that has read the gene holds a copy, and its outcome once it is inserted.
Copies ==
    \A p \in Procs :
        /\ pc[p] \in Holding => mine[p] \in Gene /\ (Proud(mine[p]) => earned)
        /\ pc[p] = "stats" => outcome[p] \in Outcomes

\* Enough receipts were noted as enough.
Noticed == IsFiniteSet(receipts.contexts) /\ (Earns(receipts) => earned)

\* Calls that do not overlap.
OneAtATime ==
    past # "overlapped" =>
        \A p, q \in Procs : pc[p] # "idle" /\ pc[q] # "idle" => p = q

\* The counters of the gene, and of the copy that will replace it.
CountersCarried ==
    /\ current => past # "overlapped"
    /\ past # "overlapped" => \A p \in Procs :
          /\ pc[p] = "write" => mine[p].stats = Stats(receipts)
          /\ pc[p] = "govern" => gene # None /\ mine[p].stats = gene.stats

\* The verdict on the receipts reaches the gene by way of the copy.
Judged ==
    past = "serial" =>
        /\ gene # None /\ (\A p \in Procs : pc[p] \notin {"stats", "write"}) => Sound(gene)
        /\ \A p \in Procs :
              /\ pc[p] \in {"insert", "govern", "write"} => Sound(mine[p])
              /\ pc[p] = "stats" /\ outcome[p] # "safety_failed" /\ mine[p].lifecycle = "stable"
                    => With(receipts, {"safety_failed"}) = {}

GeneInv ==
    /\ TypeOK
    /\ Copies
    /\ Noticed
    /\ StableWasEarned
    /\ OneAtATime
    /\ CountersCarried
    /\ CountersHeal
    /\ Judged

-----------------------------------------------------------------------------
(* The inductive invariant of the door. *)

\* A request on its way to authentication names a key, which was revoked before if
\* the request is late.
ComesWithKey(q) ==
    q.key # 0 => q.key \in DOMAIN keys /\ (q.late => ~keys[q.key].active)

\* Past the authentication, no request came without a key or with a revoked one.
PassedInTime(q) ==
    (/\ q.pc \in {"act", "lookup", "verify", "insert", "store", "served"}
     /\ q.op \notin {"fetch", "list_public"})
        => ~q.late

\* Operations on public keys know whose they are; share does not come to act.
OpsPlaced(q) ==
    q.pc = "act" => q.op # "share" /\ (q.op \in PublicKeyOps => q.agent \in Agents)

\* From lookup to store: if the key looked up made the signature, it was active.
Vouched(q) ==
    /\ q.pc \in {"verify", "insert", "store"} =>
          q.env \in Envelope /\ (q.env.by = q.hex => q.standing)
    /\ q.pc \in {"insert", "store"} => q.env.by = q.hex /\ q.env.sender = q.agent
    /\ q.pc = "served" /\ q.op = "share" => q.standing /\ q.env.sender = q.agent

\* A request that asks for admission falls under a limiter; a client that is told to
\* wait finds room afterwards.
AtLimiter(q) == /\ q.pc = "limit" => LimiterOf(q.via, q.op) \in Limiters
                /\ q.pc = "limited" => q.left < Limit

Fits(q) ==
    /\ q.pc \in {"limit", "auth"} => ComesWithKey(q)
    /\ PassedInTime(q)
    /\ OpsPlaced(q)
    /\ Vouched(q)
    /\ AtLimiter(q)

\* Every signature in the cache was verified with the key that made it.
CacheHonest ==
    \A e \in cache : e.at \in Nat /\ \E env \in Envelope : e.key = CacheKey(env, env.by)

InOrder(entries, t) == {e \in entries : e.time <= t /\ e.time + Window > t /\ ~e.overtaken}

\* What was admitted within the window behind the latest time is in the window of
\* the limiter, whatever the order it was pushed in, and that holds no more than it
\* admits; so an entry that was not overtaken counted everything of its window.
WindowsFaithful ==
    \A slot \in Limiters \X Clients :
        /\ IsFiniteSet(admitted[slot])
        /\ windows[slot] \subseteq admitted[slot]
        /\ \A e \in admitted[slot] : e.time + Window > latest[slot] => e \in windows[slot]
        /\ Cardinality(windows[slot]) <= Limit
        /\ \A t \in Nat : Cardinality(InOrder(admitted[slot], t)) <= Limit

DoorInv ==
    /\ AccessTypeOK
    /\ \A r \in Reqs : Fits(req[r])
    /\ CacheHonest
    /\ WindowsFaithful

-----------------------------------------------------------------------------
(* Receipts. *)

Receipts == [outcomes : Seq(Outcomes), contexts : SUBSET Contexts]

StatsRecord == [successes : Nat, failures : Nat, contexts : Nat]

\* Positions of outcomes are finitely many.
LEMMA WithFinite ==
    ASSUME NEW rs \in Receipts, NEW S
    PROVE  IsFiniteSet(With(rs, S)) /\ Cardinality(With(rs, S)) \in Nat
<1>1. With(rs, S) \in SUBSET (1..Len(rs.outcomes)) /\ Len(rs.outcomes) \in Nat
  BY DEF With, Receipts
<1>2. IsFiniteSet(1..Len(rs.outcomes))
  BY <1>1, FS_Interval
<1> QED
  BY <1>1, <1>2, FS_Subset, FS_CardinalityType

\* outcome_stats counts in naturals, and no failure counted is none on record.
LEMMA StatsTyped ==
    ASSUME NEW rs \in Receipts, IsFiniteSet(rs.contexts)
    PROVE  /\ Stats(rs) \in StatsRecord
           /\ Consecutive(rs) \in Nat
           /\ Stats(rs).failures = 0 =>
                 With(rs, {"safety_failed"}) = {} /\ Consecutive(rs) = 0
<1>1. /\ Cardinality(With(rs, {"succeeded"})) \in Nat
      /\ IsFiniteSet(With(rs, Failures)) /\ Cardinality(With(rs, Failures)) \in Nat
  BY WithFinite
<1>2. Cardinality(rs.contexts) \in Nat
  BY FS_CardinalityType
<1> DEFINE T == {i \in With(rs, Failures) : \A j \in With(rs, {"succeeded"}) : j < i}
<1>3. T \in SUBSET With(rs, Failures)
  OBVIOUS
<1>4. IsFiniteSet(T) /\ Cardinality(T) \in Nat
  BY <1>1, <1>3, FS_Subset, FS_CardinalityType
<1>5. ASSUME Stats(rs).failures = 0
      PROVE  With(rs, {"safety_failed"}) = {} /\ Consecutive(rs) = 0
  <2>1. With(rs, Failures) = {}
    BY <1>1, <1>5, FS_EmptySet DEF Stats
  <2>2. With(rs, {"safety_failed"}) \subseteq With(rs, Failures)
    BY DEF With, Failures
  <2>3. T = {}
    BY <2>1
  <2> QED
    BY <2>1, <2>2, <2>3, FS_EmptySet DEF Consecutive
<1> QED
  BY <1>1, <1>2, <1>4, <1>5 DEF Stats, StatsRecord, Consecutive

\* Wherever a receipt is put, the outcomes on record are the old ones and its own.
LEMMA Inserted ==
    ASSUME NEW s \in Seq(Outcomes), NEW k \in 1..(Len(s) + 1), NEW o \in Outcomes
    PROVE  /\ InsertAt(s, k, o) \in Seq(Outcomes)
           /\ \A n \in DOMAIN InsertAt(s, k, o) :
                 InsertAt(s, k, o)[n] = o \/ \E m \in DOMAIN s : InsertAt(s, k, o)[n] = s[m]
<1> DEFINE a == SubSeq(s, 1, k - 1)
           b == SubSeq(s, k, Len(s))
<1>0. Len(s) \in Nat /\ k \in Nat /\ DOMAIN s = 1..Len(s)
  OBVIOUS
<1>1. a \in Seq(Outcomes) /\ Len(a) = k - 1 /\ \A n \in 1..(k - 1) : a[n] = s[n]
  BY <1>0
<1>2. /\ b \in Seq(Outcomes) /\ Len(b) = Len(s) - k + 1
      /\ \A n \in 1..(Len(s) - k + 1) : b[n] = s[k + n - 1]
  <2>1. CASE k <= Len(s)
    BY <1>0, <2>1
  <2>2. CASE k = Len(s) + 1
    <3>1. b = << >>
      BY <1>0, <2>2, SubSeqEmpty
    <3> QED
      BY <1>0, <2>2, <3>1
  <2> QED
    BY <1>0, <2>1, <2>2
<1>3. InsertAt(s, k, o) = a \o <<o>> \o b
  BY DEF InsertAt
<1> HIDE DEF a, b
<1>4. <<o>> \in Seq(Outcomes) /\ Len(<<o>>) = 1 /\ <<o>>[1] = o
  OBVIOUS
<1> DEFINE c == a \o <<o>>
<1>5. /\ c \in Seq(Outcomes) /\ Len(c) = k
      /\ \A n \in 1..(k - 1) : c[n] = a[n]
      /\ c[k] = o
  BY <1>0, <1>1, <1>4
<1> HIDE DEF c
<1>6. /\ InsertAt(s, k, o) \in Seq(Outcomes) /\ Len(InsertAt(s, k, o)) = Len(s) + 1
      /\ \A n \in 1..k : InsertAt(s, k, o)[n] = c[n]
      /\ \A n \in (k + 1)..(Len(s) + 1) : InsertAt(s, k, o)[n] = b[n - k]
  <2>1. InsertAt(s, k, o) = c \o b
    BY <1>3 DEF c
  <2>2. Len(c) + Len(b) = Len(s) + 1 /\ Len(c) = k
    BY <1>0, <1>2, <1>5
  <2>3. /\ c \o b \in Seq(Outcomes) /\ Len(c \o b) = Len(c) + Len(b)
        /\ \A n \in 1..Len(c) : (c \o b)[n] = c[n]
        /\ \A n \in (Len(c) + 1)..(Len(c) + Len(b)) : (c \o b)[n] = b[n - Len(c)]
    BY <1>2, <1>5
  <2> QED
    BY <2>1, <2>2, <2>3
<1>7. ASSUME NEW n \in 1..(Len(s) + 1)
      PROVE  InsertAt(s, k, o)[n] = o \/ \E m \in DOMAIN s : InsertAt(s, k, o)[n] = s[m]
  <2>1. CASE n \in 1..(k - 1)
    <3>1. n \in 1..k /\ n \in DOMAIN s
      BY <1>0, <2>1
    <3>2. InsertAt(s, k, o)[n] = s[n]
      BY <1>1, <1>5, <1>6, <2>1, <3>1
    <3> QED
      BY <3>1, <3>2
  <2>2. CASE n = k
    BY <1>0, <1>5, <1>6, <2>2
  <2>3. CASE n \in (k + 1)..(Len(s) + 1)
    <3>1. n - k \in 1..(Len(s) - k + 1) /\ n - 1 \in DOMAIN s /\ k + (n - k) - 1 = n - 1
      BY <1>0, <2>3
    <3>2. InsertAt(s, k, o)[n] = s[n - 1]
      BY <1>2, <1>6, <2>3, <3>1
    <3> QED
      BY <3>1, <3>2
  <2> QED
    BY <1>0, <2>1, <2>2, <2>3
<1>8. DOMAIN InsertAt(s, k, o) = 1..(Len(s) + 1)
  BY <1>0, <1>6
<1> QED
  BY <1>6, <1>7, <1>8

-----------------------------------------------------------------------------
(* Steps of the gene. *)

\* There is no gene at first, and no receipt is enough.
LEMMA InitGene == Init => GeneInv
<1> SUFFICES ASSUME Init PROVE GeneInv
  OBVIOUS
<1>1. /\ gene = None /\ receipts = [outcomes |-> <<>>, contexts |-> {}]
      /\ \A p \in Procs : pc[p] = "idle"
      /\ past = "serial" /\ current = FALSE
  BY DEF Init
<1>2. TypeOK
  <2>1. <<>> \in Seq(Outcomes) /\ 0 \in 0..MaxOps
    BY ExperienceAssumption
  <2>2. receipts \in [outcomes : Seq(Outcomes), contexts : SUBSET Contexts]
    BY <1>1, <2>1
  <2> QED
    BY <2>1, <2>2 DEF Init, TypeOK, Steps
<1>3. IsFiniteSet(receipts.contexts) /\ receipts \in Receipts
  BY <1>1, FS_EmptySet DEF Receipts
<1>4. ~Earns(receipts)
  <2>1. With(receipts, {"succeeded"}) = {}
    BY <1>1 DEF With
  <2>2. Stats(receipts).successes = 0
    BY <2>1, FS_EmptySet DEF Stats
  <2> QED
    BY <2>2, ExperienceAssumption DEF Earns
<1> QED
  BY <1>1, <1>2, <1>3, <1>4 DEF GeneInv, Copies, Noticed, StableWasEarned, OneAtATime,
     CountersCarried, CountersHeal, Judged, Holding

\* propose replaces the gene by a candidate that is not shared.
LEMMA ProposeGene == ASSUME NEW p \in Procs, GeneInv, Propose(p) PROVE GeneInv'
<1>0. /\ TypeOK /\ Copies /\ Noticed /\ OneAtATime /\ CountersCarried /\ Judged
      /\ UNCHANGED <<receipts, mine, outcome, earned>>
      /\ pc[p] = "idle" /\ started < MaxOps /\ started' = started + 1 /\ current' = FALSE
      /\ past' = IF \E q \in Procs : pc[q] # "idle" THEN "overlapped" ELSE past
  BY DEF GeneInv, Propose
<1>1. /\ gene' = [lifecycle |-> "candidate", scope |-> "unshared",
                  stats |-> [successes |-> MinSuccesses, failures |-> 0, contexts |-> MinContexts]]
      /\ gene' \in Gene
  BY ExperienceAssumption DEF Propose, Gene, Lifecycles, Scopes
<1>2. /\ pc' \in [Procs -> Steps] /\ pc'[p] \in {"read", "idle"}
      /\ \A q \in Procs : q # p => pc'[q] = pc[q]
      /\ proposing' \in SUBSET Procs
  BY <1>0 DEF Propose, Go, TypeOK, Steps
<1>3. TypeOK'
  <2>1. past' \in {"serial", "cut", "overlapped"} /\ started' \in 0..MaxOps
    BY <1>0, ExperienceAssumption DEF TypeOK
  <2> QED
    BY <1>0, <1>1, <1>2, <2>1 DEF TypeOK
<1>4. Copies' /\ Noticed'
  BY <1>0, <1>2 DEF Copies, Noticed, Earns, Holding, Proud
<1>5. StableWasEarned' /\ CountersHeal'
  BY <1>0, <1>1 DEF StableWasEarned, CountersHeal
<1>6. past' # "overlapped" => past' = past /\ \A q \in Procs : pc[q] = "idle"
  BY <1>0
<1>7. past' # "overlapped" => \A q \in Procs : q # p => pc'[q] = "idle"
  BY <1>2, <1>6
<1>8. OneAtATime' /\ CountersCarried'
  BY <1>0, <1>2, <1>7 DEF OneAtATime, CountersCarried
<1>9. Judged'
  BY <1>1, <1>2, <1>7 DEF Judged, Sound
<1> QED
  BY <1>3, <1>4, <1>5, <1>8, <1>9 DEF GeneInv

\* A call of record_outcome, promote or revoke begins with a copy of the gene: it
\* claims no more than the gene did.
LEMMA BeginGene ==
    ASSUME NEW p \in Procs, GeneInv, gene # None, NEW copy \in Gene, Keep(p, copy),
           NEW step \in {"insert", "govern"}, Begin(p, step), UNCHANGED outcome,
           Proud(copy) => Proud(gene) \/ earned,
           copy.lifecycle = "stable" => gene.lifecycle = "stable",
           copy.stats = gene.stats
    PROVE  GeneInv'
<1>0. /\ TypeOK /\ Copies /\ Noticed /\ StableWasEarned /\ OneAtATime /\ CountersCarried
      /\ CountersHeal /\ Judged
  BY DEF GeneInv
<1>1. /\ UNCHANGED <<gene, receipts, proposing, earned, outcome>>
      /\ pc[p] = "idle" /\ started < MaxOps /\ started' = started + 1
      /\ past' = IF \E q \in Procs : pc[q] # "idle" THEN "overlapped" ELSE past
      /\ current' = (current /\ past' # "overlapped")
  BY DEF Begin
<1>2. /\ pc' \in [Procs -> Steps] /\ pc'[p] = step
      /\ \A q \in Procs : q # p => pc'[q] = pc[q]
  BY <1>0 DEF Begin, Go, TypeOK, Steps
<1>3. /\ mine' \in [Procs -> Gene \cup {None}] /\ mine'[p] = copy
      /\ \A q \in Procs : q # p => mine'[q] = mine[q]
  BY <1>0 DEF Keep, TypeOK
<1>4. TypeOK'
  BY <1>0, <1>1, <1>2, <1>3, ExperienceAssumption DEF TypeOK
<1>5. Proud(gene) => earned
  BY <1>0 DEF StableWasEarned, Proud
<1>6. Copies'
  <2>1. ASSUME NEW q \in Procs, q # p
        PROVE  /\ pc'[q] \in Holding => mine'[q] \in Gene /\ (Proud(mine'[q]) => earned)
               /\ pc'[q] = "stats" => outcome'[q] \in Outcomes
    BY <1>0, <1>1, <1>2, <1>3, <2>1 DEF Copies
  <2>2. mine'[p] \in Gene /\ (Proud(mine'[p]) => earned) /\ pc'[p] # "stats"
    BY <1>2, <1>3, <1>5
  <2> QED
    BY <1>1, <2>1, <2>2 DEF Copies, Proud
<1>7. Noticed' /\ StableWasEarned' /\ CountersHeal'
  BY <1>0, <1>1 DEF Noticed, Earns, StableWasEarned, CountersHeal
<1>8. past' # "overlapped" =>
        past' = past /\ (\A q \in Procs : pc[q] = "idle") /\ \A q \in Procs : q # p => pc'[q] = "idle"
  BY <1>1, <1>2
<1>9. OneAtATime' /\ CountersCarried'
  BY <1>0, <1>1, <1>2, <1>3, <1>8 DEF OneAtATime, CountersCarried
<1>10. Judged'
  <2> SUFFICES ASSUME past' = "serial" PROVE Judged'
    BY DEF Judged
  <2>1. past = "serial" /\ (\A q \in Procs : pc[q] = "idle") /\ \A q \in Procs : q # p => pc'[q] = "idle"
    BY <1>8
  <2>2. Sound(gene)
    BY <1>0, <2>1 DEF Judged
  <2>3. Sound(copy)
    BY <2>2 DEF Sound
  <2> QED
    BY <1>1, <1>2, <1>3, <2>1, <2>2, <2>3 DEF Judged, Sound
<1> QED
  BY <1>4, <1>6, <1>7, <1>9, <1>10 DEF GeneInv

\* The three calls that begin so.
LEMMA CallsGene ==
    ASSUME NEW p \in Procs, GeneInv,
           \/ RecordOutcome(p)
           \/ \E s \in Scopes : Promote(p, s)
           \/ \E q \in BOOLEAN : Revoke(p, q)
    PROVE  GeneInv'
<1>0. TypeOK /\ StableWasEarned
  BY DEF GeneInv
<1>1. ASSUME gene # None
      PROVE  gene \in Gene /\ (Proud(gene) => earned)
  BY <1>0, <1>1 DEF TypeOK, StableWasEarned, Proud
<1>2. CASE RecordOutcome(p)
  <2>1. gene # None /\ Keep(p, gene) /\ Begin(p, "insert") /\ UNCHANGED outcome
    BY <1>2 DEF RecordOutcome, Read
  <2> QED
    BY <1>1, <2>1, BeginGene
<1>3. ASSUME NEW s \in Scopes, Promote(p, s) PROVE GeneInv'
  <2> DEFINE copy == [gene EXCEPT !.scope = s]
  <2>1. /\ gene # None /\ gene.lifecycle = "stable" /\ Keep(p, copy) /\ Begin(p, "govern")
        /\ UNCHANGED outcome
    BY <1>3 DEF Promote, Publishable
  <2>2. copy \in Gene /\ copy.stats = gene.stats /\ earned
    BY <1>1, <2>1 DEF Gene, Proud
  <2> HIDE DEF copy
  <2> QED
    BY <2>1, <2>2, BeginGene
<1>4. ASSUME NEW q \in BOOLEAN, Revoke(p, q) PROVE GeneInv'
  <2> DEFINE copy == [gene EXCEPT !.lifecycle = IF q THEN "quarantined" ELSE "revoked"]
  <2>1. gene # None /\ Keep(p, copy) /\ Begin(p, "govern") /\ UNCHANGED outcome
    BY <1>4 DEF Revoke
  <2>2. copy \in Gene /\ copy.stats = gene.stats /\ copy.lifecycle # "stable"
        /\ copy.scope = gene.scope
    BY <1>1, <2>1 DEF Gene, Lifecycles
  <2>3. Proud(copy) => Proud(gene)
    BY <2>2 DEF Proud
  <2> HIDE DEF copy
  <2> QED
    BY <2>1, <2>2, <2>3, BeginGene
<1> QED
  BY <1>2, <1>3, <1>4

\* propose reads the gene back to record a receipt of the bundle.
LEMMA RecordProposedGene == ASSUME NEW p \in Procs, GeneInv, RecordProposed(p) PROVE GeneInv'
<1>0. /\ TypeOK /\ Copies /\ Noticed /\ StableWasEarned /\ OneAtATime /\ CountersCarried
      /\ CountersHeal /\ Judged
  BY DEF GeneInv
<1>1. /\ UNCHANGED <<gene, receipts, outcome, proposing, started, earned, past, current>>
      /\ pc[p] = "read" /\ gene # None
  BY DEF RecordProposed, Read
<1>2. /\ pc' \in [Procs -> Steps] /\ pc'[p] = "insert"
      /\ \A q \in Procs : q # p => pc'[q] = pc[q]
  BY <1>0 DEF RecordProposed, Go, TypeOK, Steps
<1>3. /\ mine' \in [Procs -> Gene \cup {None}] /\ mine'[p] = gene
      /\ \A q \in Procs : q # p => mine'[q] = mine[q]
      /\ gene \in Gene
  BY <1>0, <1>1 DEF RecordProposed, Read, Keep, TypeOK
<1>4. TypeOK'
  BY <1>0, <1>1, <1>2, <1>3 DEF TypeOK
<1>5. Copies'
  <2>1. ASSUME NEW q \in Procs, q # p
        PROVE  /\ pc'[q] \in Holding => mine'[q] \in Gene /\ (Proud(mine'[q]) => earned)
               /\ pc'[q] = "stats" => outcome'[q] \in Outcomes
    BY <1>0, <1>1, <1>2, <1>3, <2>1 DEF Copies
  <2>2. mine'[p] \in Gene /\ (Proud(mine'[p]) => earned) /\ pc'[p] # "stats"
    BY <1>0, <1>1, <1>2, <1>3 DEF StableWasEarned, Proud
  <2> QED
    BY <1>1, <2>1, <2>2 DEF Copies, Proud
<1>6. Noticed' /\ StableWasEarned' /\ CountersHeal' /\ OneAtATime' /\ CountersCarried'
  BY <1>0, <1>1, <1>2, <1>3 DEF Noticed, Earns, StableWasEarned, CountersHeal, OneAtATime,
     CountersCarried
<1>7. ASSUME past = "serial" PROVE Judged'
  <2>1. \A q \in Procs : q # p => pc[q] = "idle"
    BY <1>0, <1>1, <1>7 DEF OneAtATime
  <2>2. Sound(gene)
    BY <1>0, <1>1, <1>7, <2>1 DEF Judged
  <2> QED
    BY <1>1, <1>2, <1>3, <2>1, <2>2 DEF Judged, Sound
<1>8. past # "serial" => Judged'
  BY <1>1 DEF Judged
<1> QED
  BY <1>4, <1>5, <1>6, <1>7, <1>8 DEF GeneInv

\* A receipt is added; enough receipts are noticed at once.
LEMMA InsertGene ==
    ASSUME NEW p \in Procs, NEW r \in Receipt, GeneInv, InsertReceipt(p, r)
    PROVE  GeneInv'
<1>0. /\ TypeOK /\ Copies /\ Noticed /\ StableWasEarned /\ OneAtATime /\ CountersCarried
      /\ CountersHeal /\ Judged
  BY DEF GeneInv
<1>1. /\ UNCHANGED <<gene, mine, proposing, started, past>>
      /\ pc[p] = "insert" /\ earned' = (earned \/ Earns(receipts')) /\ current' = FALSE
  BY DEF InsertReceipt
<1>2. /\ pc' \in [Procs -> Steps] /\ pc'[p] = "stats"
      /\ \A q \in Procs : q # p => pc'[q] = pc[q]
      /\ outcome' \in [Procs -> Outcomes \cup {None}] /\ outcome'[p] = r.outcome
      /\ \A q \in Procs : q # p => outcome'[q] = outcome[q]
      /\ r.outcome \in Outcomes /\ r.context \in Contexts
  BY <1>0 DEF InsertReceipt, Go, TypeOK, Steps, Receipt
<1>3. PICK k \in 1..(Len(receipts.outcomes) + 1) :
         receipts' = [outcomes |-> InsertAt(receipts.outcomes, k, r.outcome),
                      contexts |-> receipts.contexts \cup {r.context}]
  BY DEF InsertReceipt
<1>4. receipts \in Receipts /\ receipts.outcomes \in Seq(Outcomes)
  BY <1>0 DEF TypeOK, Receipts
<1>5. receipts' \in Receipts /\ IsFiniteSet(receipts'.contexts)
  <2>1. InsertAt(receipts.outcomes, k, r.outcome) \in Seq(Outcomes)
    BY <1>2, <1>4, Inserted
  <2>2. IsFiniteSet(receipts.contexts \cup {r.context})
    BY <1>0, FS_AddElement DEF Noticed
  <2> QED
    BY <1>2, <1>3, <1>4, <2>1, <2>2 DEF Receipts
<1>6. TypeOK'
  <2>1. earned' \in BOOLEAN
    BY <1>0, <1>1 DEF TypeOK, Earns
  <2> QED
    BY <1>0, <1>1, <1>2, <1>5, <2>1 DEF TypeOK, Receipts
<1>7. Copies'
  BY <1>0, <1>1, <1>2 DEF Copies, Holding, Proud
<1>8. Noticed' /\ StableWasEarned' /\ CountersHeal' /\ OneAtATime'
  BY <1>0, <1>1, <1>2, <1>5 DEF Noticed, StableWasEarned, CountersHeal, OneAtATime
<1>9. past # "overlapped" => \A q \in Procs : q # p => pc'[q] = "idle"
  BY <1>0, <1>1, <1>2 DEF OneAtATime
<1>10. CountersCarried'
  BY <1>1, <1>2, <1>9 DEF CountersCarried
<1>11. ASSUME past = "serial" PROVE Judged'
  <2>1. \A q \in Procs : q # p => pc'[q] = "idle"
    BY <1>9, <1>11
  <2>2. ASSUME r.outcome # "safety_failed", mine[p].lifecycle = "stable"
        PROVE  With(receipts', {"safety_failed"}) = {}
    <3>1. With(receipts, {"safety_failed"}) = {}
      BY <1>0, <1>1, <1>11, <2>2 DEF Judged, Sound
    <3>2. \A m \in DOMAIN receipts.outcomes : receipts.outcomes[m] # "safety_failed"
      BY <3>1 DEF With
    <3>3. receipts'.outcomes = InsertAt(receipts.outcomes, k, r.outcome)
      BY <1>3
    <3>4. \A n \in DOMAIN receipts'.outcomes :
             \/ receipts'.outcomes[n] = r.outcome
             \/ \E m \in DOMAIN receipts.outcomes : receipts'.outcomes[n] = receipts.outcomes[m]
      BY <1>2, <1>4, <3>3, Inserted
    <3> QED
      BY <2>2, <3>2, <3>4 DEF With
  <2> QED
    BY <1>1, <1>2, <2>1, <2>2 DEF Judged
<1>12. past # "serial" => Judged'
  BY <1>1 DEF Judged
<1> QED
  BY <1>6, <1>7, <1>8, <1>10, <1>11, <1>12 DEF GeneInv

\* record_outcome's three rules: stable only when the receipts are enough, or as it was.
LEMMA JudgeRules ==
    ASSUME NEW l \in Lifecycles, NEW o \in Outcomes, NEW rs \in Receipts, IsFiniteSet(rs.contexts)
    PROVE  /\ Judge(l, o, rs) \in Lifecycles
           /\ Judge(l, o, rs) = "stable" =>
                 /\ o # "safety_failed" /\ Consecutive(rs) < 2
                 /\ Earns(rs) \/ l = "stable"
<1>1. Consecutive(rs) \in Nat
  BY StatsTyped
<1> QED
  BY <1>1 DEF Judge, Lifecycles, Earns

\* outcome_stats and the verdict, on the copy.
LEMMA ComputeGene == ASSUME NEW p \in Procs, GeneInv, Compute(p) PROVE GeneInv'
<1>0. /\ TypeOK /\ Copies /\ Noticed /\ StableWasEarned /\ OneAtATime /\ CountersCarried
      /\ CountersHeal /\ Judged
  BY DEF GeneInv
<1>1. UNCHANGED <<gene, receipts, proposing, started, earned, past, current>> /\ pc[p] = "stats"
  BY DEF Compute
<1>2. /\ pc' \in [Procs -> Steps] /\ pc'[p] = "write"
      /\ \A q \in Procs : q # p => pc'[q] = pc[q]
      /\ outcome' \in [Procs -> Outcomes \cup {None}]
      /\ \A q \in Procs : q # p => outcome'[q] = outcome[q]
  BY <1>0 DEF Compute, Go, TypeOK, Steps
<1>3. /\ mine[p] \in Gene /\ (Proud(mine[p]) => earned) /\ outcome[p] \in Outcomes
      /\ mine[p].lifecycle \in Lifecycles
  BY <1>0, <1>1 DEF Copies, Gene, Holding
<1>4. receipts \in Receipts /\ IsFiniteSet(receipts.contexts)
  BY <1>0 DEF TypeOK, Receipts, Noticed
<1> DEFINE l == Judge(mine[p].lifecycle, outcome[p], receipts)
<1>5. PICK verdict \in Lifecycles : verdict = l
  BY <1>3, <1>4, JudgeRules
<1>6. verdict = "stable" =>
         /\ outcome[p] # "safety_failed" /\ Consecutive(receipts) < 2
         /\ Earns(receipts) \/ mine[p].lifecycle = "stable"
  BY <1>3, <1>4, <1>5, JudgeRules
<1>7. PICK counted \in StatsRecord : counted = Stats(receipts)
  BY <1>4, StatsTyped
<1>8. /\ mine' \in [Procs -> Gene \cup {None}]
      /\ mine'[p] \in Gene /\ mine'[p].lifecycle = verdict /\ mine'[p].stats = counted
      /\ mine'[p].scope = mine[p].scope
      /\ \A q \in Procs : q # p => mine'[q] = mine[q]
  <2>1. mine' = [mine EXCEPT ![p] = [mine[p] EXCEPT !.stats = counted, !.lifecycle = verdict]]
    BY <1>0, <1>5, <1>7 DEF Compute, TypeOK
  <2>2. PICK new : new = [mine[p] EXCEPT !.stats = counted, !.lifecycle = verdict]
    OBVIOUS
  <2>3. /\ new \in Gene /\ new.lifecycle = verdict /\ new.stats = counted
        /\ new.scope = mine[p].scope
    BY <1>3, <2>2 DEF Gene, StatsRecord
  <2> QED
    BY <1>0, <2>1, <2>2, <2>3 DEF TypeOK
<1>9. TypeOK'
  BY <1>0, <1>1, <1>2, <1>8 DEF TypeOK
<1>10. Copies'
  <2>1. ASSUME NEW q \in Procs, q # p
        PROVE  /\ pc'[q] \in Holding => mine'[q] \in Gene /\ (Proud(mine'[q]) => earned)
               /\ pc'[q] = "stats" => outcome'[q] \in Outcomes
    BY <1>0, <1>1, <1>2, <1>8, <2>1 DEF Copies
  <2>2. Proud(mine'[p]) => earned
    BY <1>0, <1>3, <1>6, <1>8 DEF Proud, Noticed
  <2> QED
    BY <1>1, <1>2, <1>8, <2>1, <2>2 DEF Copies, Proud
<1>11. Noticed' /\ StableWasEarned' /\ CountersHeal' /\ OneAtATime'
  BY <1>0, <1>1, <1>2 DEF Noticed, Earns, StableWasEarned, CountersHeal, OneAtATime
<1>12. CountersCarried'
  BY <1>0, <1>1, <1>2, <1>7, <1>8 DEF CountersCarried
<1>13. ASSUME past = "serial" PROVE Judged'
  <2>1. \A q \in Procs : q # p => pc'[q] = "idle"
    BY <1>0, <1>1, <1>2, <1>13 DEF OneAtATime
  <2>2. ASSUME verdict = "stable"
        PROVE  With(receipts, {"safety_failed"}) = {} /\ Consecutive(receipts) < 2
    <3>1. CASE Earns(receipts)
      <4>1. Stats(receipts).failures = 0
        BY <3>1 DEF Earns
      <4> QED
        BY <1>4, <1>6, <2>2, <4>1, StatsTyped
    <3>2. CASE mine[p].lifecycle = "stable"
      BY <1>0, <1>1, <1>6, <1>13, <2>2, <3>2 DEF Judged
    <3> QED
      BY <1>6, <2>2, <3>1, <3>2
  <2>3. Sound(mine'[p])
    BY <1>8, <2>2 DEF Sound
  <2> QED
    BY <1>1, <1>2, <2>1, <2>3 DEF Judged, Sound
<1>14. past # "serial" => Judged'
  BY <1>1 DEF Judged
<1> QED
  BY <1>9, <1>10, <1>11, <1>12, <1>13, <1>14 DEF GeneInv

\* The copy of record_outcome becomes the gene.
LEMMA WriteGene == ASSUME NEW p \in Procs, GeneInv, Write(p) PROVE GeneInv'
<1>0. /\ TypeOK /\ Copies /\ Noticed /\ StableWasEarned /\ OneAtATime /\ CountersCarried /\ Judged
  BY DEF GeneInv
<1>1. /\ UNCHANGED <<receipts, started, earned, past>>
      /\ pc[p] = "write" /\ gene' = mine[p] /\ current' = (past # "overlapped")
  BY DEF Write
<1>2. /\ pc' \in [Procs -> Steps] /\ pc'[p] \in {"idle", "read"}
      /\ \A q \in Procs : q # p => pc'[q] = pc[q]
      /\ outcome' \in [Procs -> Outcomes \cup {None}]
      /\ \A q \in Procs : q # p => outcome'[q] = outcome[q]
      /\ mine' \in [Procs -> Gene \cup {None}]
      /\ \A q \in Procs : q # p => mine'[q] = mine[q]
      /\ proposing' \in SUBSET Procs
  BY <1>0 DEF Write, Return, Go, TypeOK, Steps
<1>3. mine[p] \in Gene /\ (Proud(mine[p]) => earned)
  BY <1>0, <1>1 DEF Copies, Holding
<1>4. TypeOK'
  BY <1>0, <1>1, <1>2, <1>3 DEF TypeOK
<1>5. Copies' /\ Noticed'
  BY <1>0, <1>1, <1>2 DEF Copies, Noticed, Earns, Holding, Proud
<1>6. StableWasEarned'
  BY <1>1, <1>3 DEF StableWasEarned, Proud
<1>7. past # "overlapped" => \A q \in Procs : q # p => pc'[q] = "idle"
  BY <1>0, <1>1, <1>2 DEF OneAtATime
<1>8. OneAtATime' /\ CountersCarried'
  BY <1>1, <1>2, <1>7 DEF OneAtATime, CountersCarried
<1>9. CountersHeal'
  BY <1>0, <1>1 DEF CountersCarried, CountersHeal
<1>10. Judged'
  BY <1>0, <1>1, <1>2, <1>7 DEF Judged, Sound
<1> QED
  BY <1>4, <1>5, <1>6, <1>8, <1>9, <1>10 DEF GeneInv

\* The copy of promote or revoke becomes the gene.
LEMMA GovernGene == ASSUME NEW p \in Procs, GeneInv, Govern(p) PROVE GeneInv'
<1>0. /\ TypeOK /\ Copies /\ Noticed /\ StableWasEarned /\ OneAtATime /\ CountersCarried
      /\ CountersHeal /\ Judged
  BY DEF GeneInv
<1>1. /\ UNCHANGED <<receipts, started, earned, past, current>>
      /\ pc[p] = "govern" /\ gene' = mine[p]
  BY DEF Govern
<1>2. /\ pc' \in [Procs -> Steps] /\ pc'[p] = "idle"
      /\ \A q \in Procs : q # p => pc'[q] = pc[q]
      /\ outcome' \in [Procs -> Outcomes \cup {None}]
      /\ \A q \in Procs : q # p => outcome'[q] = outcome[q]
      /\ mine' \in [Procs -> Gene \cup {None}]
      /\ \A q \in Procs : q # p => mine'[q] = mine[q]
      /\ proposing' \in SUBSET Procs
  BY <1>0 DEF Govern, Return, Go, TypeOK, Steps
<1>3. mine[p] \in Gene /\ (Proud(mine[p]) => earned)
  BY <1>0, <1>1 DEF Copies, Holding
<1>4. TypeOK'
  BY <1>0, <1>1, <1>2, <1>3 DEF TypeOK
<1>5. Copies' /\ Noticed'
  BY <1>0, <1>1, <1>2 DEF Copies, Noticed, Earns, Holding, Proud
<1>6. StableWasEarned'
  BY <1>1, <1>3 DEF StableWasEarned, Proud
<1>7. past # "overlapped" => \A q \in Procs : q # p => pc'[q] = "idle"
  BY <1>0, <1>1, <1>2 DEF OneAtATime
<1>8. OneAtATime' /\ CountersCarried'
  BY <1>0, <1>1, <1>2, <1>7 DEF OneAtATime, CountersCarried
<1>9. CountersHeal'
  BY <1>0, <1>1 DEF CountersCarried, CountersHeal
<1>10. Judged'
  BY <1>0, <1>1, <1>2, <1>7 DEF Judged, Sound
<1> QED
  BY <1>4, <1>5, <1>6, <1>8, <1>9, <1>10 DEF GeneInv

\* A call that ends early forgets its copy.
LEMMA FailGene == ASSUME NEW p \in Procs, GeneInv, Fail(p) PROVE GeneInv'
<1>0. /\ TypeOK /\ Copies /\ Noticed /\ StableWasEarned /\ OneAtATime /\ CountersCarried
      /\ CountersHeal /\ Judged
  BY DEF GeneInv
<1>1. /\ UNCHANGED <<gene, receipts, started, earned, current>>
      /\ pc[p] # "idle"
      /\ past' = IF pc[p] \in {"stats", "write"} /\ past = "serial" THEN "cut" ELSE past
  BY DEF Fail
<1>2. /\ pc' \in [Procs -> Steps] /\ pc'[p] = "idle"
      /\ \A q \in Procs : q # p => pc'[q] = pc[q]
      /\ outcome' \in [Procs -> Outcomes \cup {None}]
      /\ \A q \in Procs : q # p => outcome'[q] = outcome[q]
      /\ mine' \in [Procs -> Gene \cup {None}]
      /\ \A q \in Procs : q # p => mine'[q] = mine[q]
      /\ proposing' \in SUBSET Procs
  BY <1>0 DEF Fail, Return, Go, TypeOK, Steps
<1>3. TypeOK'
  <2>1. past' \in {"serial", "cut", "overlapped"}
    BY <1>0, <1>1 DEF TypeOK
  <2> QED
    BY <1>0, <1>1, <1>2, <2>1 DEF TypeOK
<1>4. Copies' /\ Noticed' /\ StableWasEarned' /\ CountersHeal'
  BY <1>0, <1>1, <1>2 DEF Copies, Noticed, Earns, Holding, Proud, StableWasEarned, CountersHeal
<1>5. /\ past' = "overlapped" <=> past = "overlapped"
      /\ past' = "serial" => past = "serial" /\ pc[p] \notin {"stats", "write"}
  BY <1>1
<1>6. past # "overlapped" => \A q \in Procs : q # p => pc'[q] = "idle"
  BY <1>0, <1>1, <1>2 DEF OneAtATime
<1>7. OneAtATime' /\ CountersCarried'
  BY <1>0, <1>1, <1>2, <1>5, <1>6 DEF OneAtATime, CountersCarried
<1>8. Judged'
  <2> SUFFICES ASSUME past' = "serial" PROVE Judged'
    BY DEF Judged
  <2>1. past = "serial" /\ pc[p] \notin {"stats", "write"} /\ \A q \in Procs : q # p => pc'[q] = "idle"
    BY <1>5, <1>6
  <2>2. \A q \in Procs : pc[q] \notin {"stats", "write"} /\ pc'[q] = "idle"
    BY <1>2, <2>1
  <2> QED
    BY <1>0, <1>1, <2>1, <2>2 DEF Judged, Sound
<1> QED
  BY <1>3, <1>4, <1>7, <1>8 DEF GeneInv

\* Every step of the gene, or of the door, keeps the invariant of the gene.
LEMMA GeneStep == ASSUME GeneInv, [Next]_vars PROVE GeneInv'
<1>1. CASE UNCHANGED vars
  BY <1>1 DEF vars, GeneInv, TypeOK, Copies, Noticed, Earns, StableWasEarned, OneAtATime,
     CountersCarried, CountersHeal, Judged, Sound, Proud
<1>2. CASE Next
  BY <1>2, ProposeGene, CallsGene, RecordProposedGene, InsertGene, ComputeGene, WriteGene,
     GovernGene, FailGene DEF Next
<1> QED
  BY <1>1, <1>2

-----------------------------------------------------------------------------
(* Requests. *)

\* A request that was answered fits anywhere.
LEMMA IdleFits == Idle \in Request /\ Fits(Idle) /\ Idle.pc = "idle" /\ Idle.standing = FALSE
<1>1. PICK c \in Clients : c = CHOOSE d \in Clients : TRUE
  BY AccessAssumption
<1>2. /\ Idle = [pc |-> "idle", via |-> "http", op |-> "fetch", key |-> 0, client |-> c,
                 agent |-> NoValue, scopes |-> {}, env |-> NoValue, hex |-> NoValue,
                 late |-> FALSE, standing |-> FALSE, left |-> 0, stamp |-> 0]
  BY <1>1 DEF Idle
<1>3. "fetch" \in Ops
  BY DEF Ops
<1>4. Idle \in Request
  BY <1>2, <1>3 DEF Request, AccessSteps
<1> QED
  BY <1>2, <1>4 DEF Fits, ComesWithKey, PassedInTime, OpsPlaced, Vouched, AtLimiter

\* A step that leaves the limiter alone, revokes no revocation and leaves every
\* request fitting.
LEMMA RequestsStep ==
    ASSUME DoorInv, UNCHANGED <<now, windows, admitted, latest>>,
           arrivals' \in 0..MaxStarts, arrivals' >= arrivals,
           NEW f \in [Reqs -> Request], req' = f, \A x \in Reqs : Fits(f[x]),
           public' \in [Agents -> Seq(PublicKey)], CacheHonest',
           keys' \in Seq(Key),
           \A k \in DOMAIN keys : k \in DOMAIN keys' /\ (~keys[k].active => ~keys'[k].active)
    PROVE  DoorInv'
<1>1. AccessTypeOK'
  BY DEF DoorInv, AccessTypeOK, CacheHonest
<1>2. ASSUME NEW x \in Reqs PROVE Fits(req[x])'
  <2>1. PICK q \in Request : q = f[x] /\ Fits(q)
    OBVIOUS
  <2>2. ComesWithKey(q) => ComesWithKey(q)'
    BY DEF ComesWithKey
  <2>3. Fits(q)'
    BY <2>1, <2>2 DEF Fits, PassedInTime, OpsPlaced, Vouched, AtLimiter
  <2>4. req'[x] = q
    BY <2>1
  <2> QED
    BY <2>3, <2>4 DEF Fits, ComesWithKey, PassedInTime, OpsPlaced, Vouched, AtLimiter
<1>3. WindowsFaithful'
  BY DEF DoorInv, WindowsFaithful, InOrder
<1> QED
  BY <1>1, <1>2, <1>3 DEF DoorInv

\* The same for a step that changes one request.
LEMMA RequestStep ==
    ASSUME DoorInv, UNCHANGED <<now, windows, admitted, latest>>,
           arrivals' \in 0..MaxStarts, arrivals' >= arrivals,
           NEW r \in Reqs, NEW q \in Request, req' = [req EXCEPT ![r] = q], Fits(q),
           public' \in [Agents -> Seq(PublicKey)], CacheHonest',
           keys' \in Seq(Key),
           \A k \in DOMAIN keys : k \in DOMAIN keys' /\ (~keys[k].active => ~keys'[k].active)
    PROVE  DoorInv'
<1> DEFINE f == [req EXCEPT ![r] = q]
<1>1. f \in [Reqs -> Request] /\ f[r] = q /\ \A x \in Reqs : x # r => f[x] = req[x]
  BY DEF DoorInv, AccessTypeOK
<1>2. \A x \in Reqs : Fits(f[x])
  BY <1>1 DEF DoorInv
<1>3. PICK g \in [Reqs -> Request] : g = f
  BY <1>1
<1>4. (\A x \in Reqs : Fits(g[x])) /\ req' = g
  BY <1>2, <1>3
<1> HIDE DEF f
<1> QED
  BY <1>4, RequestsStep

\* A handler that only answers, or only goes on.
LEMMA AnswerStep ==
    ASSUME DoorInv, UNCHANGED <<now, windows, keys, public, cache, admitted, latest, arrivals>>,
           NEW r \in Reqs, NEW q \in Request, req' = [req EXCEPT ![r] = q], Fits(q)
    PROVE  DoorInv'
<1>1. /\ arrivals' \in 0..MaxStarts /\ arrivals' >= arrivals
      /\ public' \in [Agents -> Seq(PublicKey)] /\ keys' \in Seq(Key) /\ CacheHonest'
      /\ \A k \in DOMAIN keys : k \in DOMAIN keys' /\ (~keys[k].active => ~keys'[k].active)
  BY AccessAssumption DEF DoorInv, AccessTypeOK, CacheHonest
<1> QED
  BY <1>1, RequestStep

\* An error response.
LEMMA RefuseStep ==
    ASSUME DoorInv, UNCHANGED <<now, windows, keys, public, cache, admitted, latest, arrivals>>,
           NEW r \in Reqs, Refuse(r)
    PROVE  DoorInv'
  BY IdleFits, AnswerStep DEF Refuse

\* What comes from act to the response fits.
LEMMA ServedFits ==
    ASSUME DoorInv, NEW r \in Reqs, req[r].pc = "act"
    PROVE  \E q \in Request :
              Fits(q) /\ q.pc = "served" /\ [req EXCEPT ![r].pc = "served"] = [req EXCEPT ![r] = q]
<1>1. req[r] \in Request /\ Fits(req[r]) /\ req \in [Reqs -> Request]
  BY DEF DoorInv, AccessTypeOK
<1> DEFINE q == [req[r] EXCEPT !.pc = "served"]
<1>2. q \in Request /\ q.pc = "served" /\ q.op = req[r].op /\ q.late = req[r].late
  BY <1>1 DEF Request, AccessSteps
<1>3. [req EXCEPT ![r].pc = "served"] = [req EXCEPT ![r] = q]
  BY <1>1
<1> HIDE DEF q
<1>4. Fits(q)
  BY <1>1, <1>2 DEF Fits, PassedInTime, OpsPlaced, Vouched, AtLimiter
<1> QED
  BY <1>2, <1>3, <1>4 DEF q

\* A handler that serves its request.
LEMMA ServeStep ==
    ASSUME DoorInv, UNCHANGED <<now, windows, keys, public, cache, admitted, latest, arrivals>>,
           NEW r \in Reqs, req[r].pc = "act", Proceed(r, "served")
    PROVE  DoorInv'
<1>1. PICK q \in Request : Fits(q) /\ [req EXCEPT ![r].pc = "served"] = [req EXCEPT ![r] = q]
  BY ServedFits
<1> QED
  BY <1>1, AnswerStep DEF Proceed

\* verify_key lets no late request pass; what passes is on its way to act or lookup.
LEMMA AuthenticatedFits ==
    ASSUME DoorInv, NEW q \in Request, ComesWithKey(q)
    PROVE  Authenticated(q) \in Request /\ Fits(Authenticated(q))
<1> DEFINE passes == /\ q.key # 0 /\ Valid(q.key)
                     /\ Required(q.via, q.op) \in WithScopes(keys[q.key].scopes) \cup {NoValue}
<1>1. CASE ~passes
  BY <1>1, IdleFits DEF Authenticated
<1>2. CASE passes
  <2>1. q.key \in DOMAIN keys /\ keys[q.key].active
    BY <1>2 DEF ComesWithKey, Valid
  <2>2. keys[q.key] \in Key
    BY <2>1 DEF DoorInv, AccessTypeOK
  <2>3. ~q.late
    BY <1>2, <2>1 DEF ComesWithKey
  <2>4. PICK step \in {"lookup", "act"} : step = IF q.op = "share" THEN "lookup" ELSE "act"
    OBVIOUS
  <2>5. PICK a \in Agents \cup {NoValue} :
          a = IF q.op \in {"share", "use"} \cup PublicKeyOps THEN keys[q.key].agent ELSE NoValue
    BY <2>2 DEF Key
  <2>6. PICK s \in SUBSET ApiScopes :
          s = IF q.op = "create" THEN WithScopes(keys[q.key].scopes) ELSE {}
    BY <2>2 DEF Key, WithScopes, ApiScopes
  <2>7. q.op \in PublicKeyOps => a \in Agents
    BY <2>2, <2>5 DEF Key
  <2>8. Authenticated(q) = [q EXCEPT !.pc = step, !.key = 0, !.via = "http",
                                     !.agent = a, !.scopes = s]
    BY <1>2, <2>4, <2>5, <2>6 DEF Authenticated
  <2> DEFINE new == [q EXCEPT !.pc = step, !.key = 0, !.via = "http", !.agent = a, !.scopes = s]
  <2>9. new \in Request /\ new.pc = step /\ new.op = q.op /\ new.late = q.late /\ new.agent = a
    BY DEF Request, AccessSteps
  <2> HIDE DEF new
  <2>10. Fits(new)
    BY <2>3, <2>4, <2>7, <2>9 DEF Fits, PassedInTime, OpsPlaced, Vouched, AtLimiter
  <2> QED
    BY <2>8, <2>9, <2>10 DEF new
<1> QED
  BY <1>1, <1>2

\* A request that arrives with a key.
LEMMA AsksTyped ==
    ASSUME NEW r \in Reqs, NEW via \in {"http", "mcp"}, NEW op \in Ops, NEW k \in Nat,
           NEW c \in Clients, MayAsk(r, via, op, k)
    PROVE  /\ Asks(via, op, k, c) \in Request /\ ComesWithKey(Asks(via, op, k, c))
           /\ Asks(via, op, k, c).op = op /\ Asks(via, op, k, c).via = via
<1>1. PICK late \in BOOLEAN : late = (k = 0 \/ ~keys[k].active)
  OBVIOUS
<1>2. Asks(via, op, k, c) =
        [Idle EXCEPT !.via = via, !.op = op, !.key = k, !.client = c, !.late = late]
  BY <1>1 DEF Asks
<1> DEFINE q == [Idle EXCEPT !.via = via, !.op = op, !.key = k, !.client = c, !.late = late]
<1>3. q \in Request /\ q.key = k /\ q.late = late /\ q.op = op /\ q.via = via
  BY IdleFits DEF Request
<1> HIDE DEF q
<1>4. ComesWithKey(q)
  BY <1>1, <1>3 DEF ComesWithKey, MayAsk
<1> QED
  BY <1>2, <1>3, <1>4 DEF q

\* The steps that authenticate.
LEMMA AuthenticateDoor == ASSUME NEW r \in Reqs, DoorInv, Authenticate(r) PROVE DoorInv'
<1>1. req[r] \in Request /\ ComesWithKey(req[r])
  BY DEF DoorInv, AccessTypeOK, Authenticate, Fits
<1>2. Authenticated(req[r]) \in Request /\ Fits(Authenticated(req[r]))
  BY <1>1, AuthenticatedFits
<1> QED
  BY <1>2, AnswerStep DEF Authenticate

LEMMA HeaderDoor == ASSUME NEW r \in Reqs, DoorInv, HeaderThere(r) PROVE DoorInv'
<1>1. CASE Refuse(r)
  BY <1>1, RefuseStep DEF HeaderThere
<1>2. CASE Proceed(r, "act")
  <2>1. req[r] \in Request /\ req[r].op = "list_public" /\ req \in [Reqs -> Request]
    BY DEF HeaderThere, DoorInv, AccessTypeOK
  <2>2. PICK q \in Request : q = [req[r] EXCEPT !.pc = "act"]
    BY <2>1 DEF Request, AccessSteps
  <2>3. q.pc = "act" /\ q.op = "list_public"
    BY <2>1, <2>2 DEF Request
  <2>4. Fits(q)
    BY <2>3 DEF Fits, PassedInTime, OpsPlaced, Vouched, AtLimiter, PublicKeyOps
  <2>5. req' = [req EXCEPT ![r] = q]
    BY <1>2, <2>1, <2>2 DEF Proceed
  <2> QED
    BY <2>4, <2>5, AnswerStep DEF HeaderThere
<1> QED
  BY <1>1, <1>2 DEF HeaderThere

LEMMA ArriveUnlimitedDoor ==
    ASSUME NEW r \in Reqs, NEW via \in {"http", "mcp"}, NEW op \in Ops, NEW k \in 0..MaxKeys,
           NEW c \in Clients, DoorInv, ArriveUnlimited(r, via, op, k, c)
    PROVE  DoorInv'
<1>1. k \in Nat /\ MayAsk(r, via, op, k)
  BY AccessAssumption DEF ArriveUnlimited
<1>2. Asks(via, op, k, c) \in Request /\ ComesWithKey(Asks(via, op, k, c))
  BY <1>1, AsksTyped
<1>3. PICK q \in Request : q = Authenticated(Asks(via, op, k, c)) /\ Fits(q)
  BY <1>2, AuthenticatedFits
<1>4. /\ UNCHANGED <<now, windows, keys, public, cache, admitted, latest>>
      /\ arrivals' = arrivals + 1 /\ arrivals < MaxStarts /\ req' = [req EXCEPT ![r] = q]
  BY <1>3 DEF ArriveUnlimited, MayAsk
<1>5. /\ arrivals' \in 0..MaxStarts /\ arrivals' >= arrivals
      /\ public' \in [Agents -> Seq(PublicKey)] /\ keys' \in Seq(Key) /\ CacheHonest'
      /\ \A l \in DOMAIN keys : l \in DOMAIN keys' /\ (~keys[l].active => ~keys'[l].active)
  BY <1>4, AccessAssumption DEF DoorInv, AccessTypeOK, CacheHonest
<1> QED
  BY <1>3, <1>4, <1>5, RequestStep

-----------------------------------------------------------------------------
(* Keys. *)

\* A key that is created, and one that is revoked.
LEMMA KeyTyped ==
    ASSUME DoorInv, NEW a \in Agents, NEW ttl \in BOOLEAN, NEW s \in SUBSET ApiScopes,
           NEW known \in BOOLEAN
    PROVE  NewKey(a, ttl, s, known) \in Key
<1>1. now + KeyTtl \in Nat
  BY AccessAssumption DEF DoorInv, AccessTypeOK
<1> QED
  BY <1>1 DEF NewKey, Key

LEMMA KeyRevoked ==
    ASSUME DoorInv, NEW k \in DOMAIN keys, NEW ks, ks = [keys EXCEPT ![k].active = FALSE]
    PROVE  /\ ks \in Seq(Key) /\ DOMAIN ks = DOMAIN keys /\ Len(ks) = Len(keys)
           /\ \A l \in DOMAIN keys : ~keys[l].active => ~ks[l].active
<1>1. keys \in Seq(Key) /\ keys[k] \in Key
  BY DEF DoorInv, AccessTypeOK
<1>2. PICK new \in Key : new = [keys[k] EXCEPT !.active = FALSE] /\ new.active = FALSE
  <2>1. [keys[k] EXCEPT !.active = FALSE] \in Key
    BY <1>1 DEF Key
  <2>2. [keys[k] EXCEPT !.active = FALSE].active = FALSE
    BY <1>1 DEF Key
  <2> QED
    BY <2>1, <2>2
<1>3. ks = [keys EXCEPT ![k] = new]
  BY <1>1, <1>2
<1>4. ks \in Seq(Key) /\ DOMAIN ks = DOMAIN keys /\ Len(ks) = Len(keys)
  BY <1>1, <1>2, <1>3
<1>5. ks[k] = new /\ \A l \in DOMAIN keys : l # k => ks[l] = keys[l]
  BY <1>1, <1>3
<1> QED
  BY <1>2, <1>4, <1>5

LEMMA KeyAppended ==
    ASSUME NEW ks \in Seq(Key), NEW new \in Key
    PROVE  /\ Append(ks, new) \in Seq(Key)
           /\ \A l \in DOMAIN ks : l \in DOMAIN Append(ks, new) /\ Append(ks, new)[l] = ks[l]
  OBVIOUS

\* A step that changes the keys and answers.
LEMMA KeysStep ==
    ASSUME DoorInv, UNCHANGED <<now, windows, public, cache, admitted, latest, arrivals>>,
           NEW r \in Reqs, req[r].pc = "act", Proceed(r, "served") \/ Refuse(r),
           keys' \in Seq(Key),
           \A k \in DOMAIN keys : k \in DOMAIN keys' /\ (~keys[k].active => ~keys'[k].active)
    PROVE  DoorInv'
<1>1. /\ arrivals' \in 0..MaxStarts /\ arrivals' >= arrivals
      /\ public' \in [Agents -> Seq(PublicKey)] /\ CacheHonest'
  BY AccessAssumption DEF DoorInv, AccessTypeOK, CacheHonest
<1>2. PICK q \in Request : Fits(q) /\ req' = [req EXCEPT ![r] = q]
  BY ServedFits, IdleFits DEF Proceed, Refuse
<1> QED
  BY <1>1, <1>2, RequestStep

LEMMA CreateKeyDoor ==
    ASSUME NEW r \in Reqs, NEW a \in Agents, NEW ttl \in BOOLEAN, NEW s \in {{}, {"govern"}},
           DoorInv, CreateKey(r, a, ttl, s)
    PROVE  DoorInv'
<1>1. CASE "govern" \in s /\ "govern" \notin req[r].scopes
  BY <1>1, RefuseStep DEF CreateKey
<1>2. CASE ~("govern" \in s /\ "govern" \notin req[r].scopes)
  <2>1. s \in SUBSET ApiScopes
    BY DEF ApiScopes
  <2>2. PICK new \in Key : new = NewKey(a, ttl, s, TRUE)
    BY <2>1, KeyTyped
  <2>3. keys \in Seq(Key)
    BY DEF DoorInv, AccessTypeOK
  <2>4. /\ keys' = Append(keys, new) /\ Proceed(r, "served") /\ req[r].pc = "act"
        /\ UNCHANGED <<now, windows, public, cache, admitted, latest, arrivals>>
    BY <1>2, <2>2 DEF CreateKey
  <2>5. /\ keys' \in Seq(Key)
        /\ \A k \in DOMAIN keys : k \in DOMAIN keys' /\ (~keys[k].active => ~keys'[k].active)
    BY <2>3, <2>4, KeyAppended
  <2> QED
    BY <2>4, <2>5, KeysStep
<1> QED
  BY <1>1, <1>2

LEMMA RevokeKeyDoor ==
    ASSUME NEW r \in Reqs, NEW k \in 1..MaxKeys, DoorInv, RevokeKey(r, k)
    PROVE  DoorInv'
<1>1. /\ k \in DOMAIN keys /\ keys' = [keys EXCEPT ![k].active = FALSE]
      /\ req[r].pc = "act" /\ Proceed(r, "served")
      /\ UNCHANGED <<now, windows, public, cache, admitted, latest, arrivals>>
  BY DEF RevokeKey
<1>2. /\ keys' \in Seq(Key) /\ DOMAIN keys' = DOMAIN keys
      /\ \A l \in DOMAIN keys : ~keys[l].active => ~keys'[l].active
  BY <1>1, KeyRevoked
<1> QED
  BY <1>1, <1>2, KeysStep

\* Also when the new key is lost on the way, the old one is revoked.
LEMMA RotateKeyDoor ==
    ASSUME NEW r \in Reqs, NEW k \in 1..MaxKeys, NEW ttl \in BOOLEAN, DoorInv, RotateKey(r, k, ttl)
    PROVE  DoorInv'
<1>1. /\ k \in DOMAIN keys /\ req[r].pc = "act"
      /\ UNCHANGED <<now, windows, public, cache, admitted, latest, arrivals>>
  BY DEF RotateKey
<1>2. PICK ks : ks = [keys EXCEPT ![k].active = FALSE]
  OBVIOUS
<1>3. /\ ks \in Seq(Key) /\ DOMAIN ks = DOMAIN keys
      /\ \A l \in DOMAIN keys : ~keys[l].active => ~ks[l].active
  BY <1>1, <1>2, KeyRevoked
<1>4. keys[k].agent \in Agents /\ WithScopes(keys[k].scopes) \in SUBSET ApiScopes
  <2>1. keys[k] \in Key
    BY <1>1 DEF DoorInv, AccessTypeOK
  <2>2. keys[k].agent \in Agents /\ keys[k].scopes \in SUBSET ApiScopes
    BY <2>1 DEF Key
  <2> QED
    BY <2>2 DEF WithScopes, ApiScopes
<1>5. \A known \in BOOLEAN :
         NewKey(keys[k].agent, ttl, WithScopes(keys[k].scopes), known) \in Key
  BY <1>4, KeyTyped
<1>6. /\ Proceed(r, "served") \/ Refuse(r)
      /\ keys' = ks \/ \E new \in Key : keys' = Append(ks, new)
  BY <1>2, <1>5 DEF RotateKey
<1>7. /\ keys' \in Seq(Key)
      /\ \A l \in DOMAIN keys : l \in DOMAIN keys' /\ (~keys[l].active => ~keys'[l].active)
  BY <1>3, <1>6, KeyAppended
<1> QED
  BY <1>1, <1>6, <1>7, KeysStep

-----------------------------------------------------------------------------
(* Public keys. *)

\* The key that signed the envelope is active.
Seen(q, table) ==
    /\ q.env # NoValue
    /\ \E v \in DOMAIN table[q.env.sender] :
          table[q.env.sender][v].active /\ table[q.env.sender][v].hex = q.env.by

\* Noting that a signing key is active changes nothing else of a request.
LEMMA NotedFits ==
    ASSUME NEW rs \in [Reqs -> Request], NEW table, NEW n, n = Noted(rs, table)
    PROVE  /\ n \in [Reqs -> Request]
           /\ \A x \in Reqs : Fits(rs[x]) => Fits(n[x])
           /\ \A x \in Reqs :
                 /\ n[x] = [rs[x] EXCEPT !.standing = n[x].standing]
                 /\ Seen(rs[x], table) => n[x].standing = TRUE
<1>1. ASSUME NEW x \in Reqs
      PROVE  \E b \in BOOLEAN : /\ n[x] = [rs[x] EXCEPT !.standing = b]
                                /\ Seen(rs[x], table) => b = TRUE
                                /\ rs[x].standing => b = TRUE
  <2>1. rs[x] \in Request /\ rs[x].standing \in BOOLEAN
    BY DEF Request
  <2>2. PICK b \in BOOLEAN : b = (rs[x].standing \/ Seen(rs[x], table))
    BY Zenon
  <2>3. n[x] = [rs[x] EXCEPT !.standing = (rs[x].standing \/ Seen(rs[x], table))]
    BY <2>1 DEF Noted, Seen, Request
  <2> QED
    BY <2>2, <2>3, Zenon
<1>2. ASSUME NEW x \in Reqs
      PROVE  /\ n[x] \in Request
             /\ n[x] = [rs[x] EXCEPT !.standing = n[x].standing]
             /\ Seen(rs[x], table) => n[x].standing = TRUE
             /\ Fits(rs[x]) => Fits(n[x])
  <2>1. PICK b \in BOOLEAN : /\ n[x] = [rs[x] EXCEPT !.standing = b]
                             /\ Seen(rs[x], table) => b = TRUE
                             /\ rs[x].standing => b = TRUE
    BY <1>1
  <2>2. PICK q \in Request : q = rs[x]
    OBVIOUS
  <2>3. PICK p \in Request : p = [q EXCEPT !.standing = b]
    BY DEF Request
  <2>4. /\ p.pc = q.pc /\ p.op = q.op /\ p.key = q.key /\ p.late = q.late /\ p.agent = q.agent
        /\ p.env = q.env /\ p.hex = q.hex /\ p.left = q.left /\ p.via = q.via
        /\ p.standing = b
    BY <2>3 DEF Request
  <2>5. n[x] = p
    BY <2>1, <2>2, <2>3
  <2>6. Fits(q) => Fits(p)
    BY <2>1, <2>2, <2>4 DEF Fits, ComesWithKey, PassedInTime, OpsPlaced, Vouched, AtLimiter
  <2> QED
    BY <2>1, <2>2, <2>3, <2>4, <2>5, <2>6
<1>3. n = [x \in Reqs |-> n[x]]
  BY DEF Noted
<1>4. n \in [Reqs -> Request]
  BY <1>2, <1>3
<1> QED
  BY <1>2, <1>4

\* The versions of a sender, all revoked.
LEMMA VersionsRevoked ==
    ASSUME DoorInv, NEW a \in Agents, NEW vs,
           vs = [v \in DOMAIN public[a] |-> [public[a][v] EXCEPT !.active = FALSE]]
    PROVE  /\ vs \in Seq(PublicKey)
           /\ \A h \in Hexes : Append(vs, [hex |-> h, active |-> TRUE]) \in Seq(PublicKey)
<1>1. public[a] \in Seq(PublicKey)
  BY DEF DoorInv, AccessTypeOK
<1>2. ASSUME NEW v \in DOMAIN public[a]
      PROVE  [public[a][v] EXCEPT !.active = FALSE] \in PublicKey
  <2>1. PICK w \in PublicKey : w = public[a][v]
    BY <1>1
  <2>2. [w EXCEPT !.active = FALSE] \in PublicKey
    BY DEF PublicKey
  <2> QED
    BY <2>1, <2>2
<1>3. vs \in Seq(PublicKey)
  <2>1. DOMAIN public[a] = 1..Len(public[a]) /\ Len(public[a]) \in Nat
    BY <1>1
  <2> QED
    BY <1>2, <2>1
<1>4. \A h \in Hexes : [hex |-> h, active |-> TRUE] \in PublicKey
  BY DEF PublicKey
<1>5. \A w \in PublicKey : Append(vs, w) \in Seq(PublicKey)
  BY <1>3
<1> QED
  BY <1>3, <1>4, <1>5

LEMMA RegisterDoor ==
    ASSUME NEW r \in Reqs, NEW h \in Hexes, DoorInv, RegisterPublicKey(r, h)
    PROVE  DoorInv'
<1>1. /\ req[r].pc = "act" /\ req[r].op = "register"
      /\ UNCHANGED <<now, windows, keys, cache, admitted, latest, arrivals>>
  BY DEF RegisterPublicKey
<1>2. PICK a \in Agents : a = req[r].agent
  BY <1>1 DEF DoorInv, Fits, OpsPlaced, PublicKeyOps
<1>3. PICK vs : vs = [v \in DOMAIN public[a] |-> [public[a][v] EXCEPT !.active = FALSE]]
  OBVIOUS
<1>4. vs \in Seq(PublicKey) /\ Append(vs, [hex |-> h, active |-> TRUE]) \in Seq(PublicKey)
  BY <1>3, VersionsRevoked
<1>5. /\ \/ public' = [public EXCEPT ![a] = Append(vs, [hex |-> h, active |-> TRUE])]
         \/ public' = [public EXCEPT ![a] = vs]
      /\ req' = Noted([req EXCEPT ![r].pc = "served"], public') \/ Refuse(r)
  BY <1>2, <1>3 DEF RegisterPublicKey
<1>6. public' \in [Agents -> Seq(PublicKey)]
  BY <1>4, <1>5 DEF DoorInv, AccessTypeOK
<1>7. PICK q \in Request : Fits(q) /\ [req EXCEPT ![r].pc = "served"] = [req EXCEPT ![r] = q]
  BY <1>1, ServedFits
<1>8. PICK rs \in [Reqs -> Request] :
         rs = [req EXCEPT ![r].pc = "served"] /\ \A x \in Reqs : Fits(rs[x])
  BY <1>7 DEF DoorInv, AccessTypeOK
<1>9. PICK idle \in Request : idle = Idle /\ Fits(idle)
  BY IdleFits
<1>10. /\ arrivals' \in 0..MaxStarts /\ arrivals' >= arrivals
       /\ keys' \in Seq(Key) /\ CacheHonest'
       /\ \A k \in DOMAIN keys : k \in DOMAIN keys' /\ (~keys[k].active => ~keys'[k].active)
  BY <1>1, AccessAssumption DEF DoorInv, AccessTypeOK, CacheHonest
<1>11. CASE Refuse(r)
  BY <1>1, <1>6, <1>9, <1>10, <1>11, RequestStep DEF Refuse
<1>12. CASE req' = Noted([req EXCEPT ![r].pc = "served"], public')
  <2>1. PICK n : n = Noted(rs, public')
    OBVIOUS
  <2>2. n \in [Reqs -> Request] /\ \A x \in Reqs : Fits(n[x])
    BY <1>8, <2>1, NotedFits
  <2> QED
    BY <1>1, <1>6, <1>8, <1>10, <1>12, <2>1, <2>2, RequestsStep
<1> QED
  BY <1>5, <1>11, <1>12

LEMMA RevokePublicDoor == ASSUME NEW r \in Reqs, DoorInv, RevokePublicKey(r) PROVE DoorInv'
<1>1. /\ req[r].pc = "act" /\ req[r].op = "unregister"
      /\ UNCHANGED <<now, windows, keys, cache, admitted, latest, arrivals>>
      /\ Refuse(r) \/ Proceed(r, "served")
  BY DEF RevokePublicKey
<1>2. PICK a \in Agents : a = req[r].agent
  BY <1>1 DEF DoorInv, Fits, OpsPlaced, PublicKeyOps
<1>3. PICK vs : vs = [v \in DOMAIN public[a] |-> [public[a][v] EXCEPT !.active = FALSE]]
  OBVIOUS
<1>4. public' = [public EXCEPT ![a] = vs]
  BY <1>2, <1>3 DEF RevokePublicKey
<1>5. vs \in Seq(PublicKey)
  BY <1>3, VersionsRevoked
<1>6. public' \in [Agents -> Seq(PublicKey)]
  BY <1>4, <1>5 DEF DoorInv, AccessTypeOK
<1>7. PICK q \in Request : Fits(q) /\ req' = [req EXCEPT ![r] = q]
  BY <1>1, ServedFits, IdleFits DEF Proceed, Refuse
<1>8. /\ arrivals' \in 0..MaxStarts /\ arrivals' >= arrivals
      /\ keys' \in Seq(Key) /\ CacheHonest'
      /\ \A k \in DOMAIN keys : k \in DOMAIN keys' /\ (~keys[k].active => ~keys'[k].active)
  BY <1>1, AccessAssumption DEF DoorInv, AccessTypeOK, CacheHonest
<1> QED
  BY <1>1, <1>6, <1>7, <1>8, RequestStep

-----------------------------------------------------------------------------
(* Sharing a gene. *)

\* The key looked up is active at that moment.
LEMMA LookupDoor ==
    ASSUME NEW r \in Reqs, NEW env \in Envelope, DoorInv, LookupPublicKey(r, env)
    PROVE  DoorInv'
<1>1. /\ req[r].pc = "lookup"
      /\ UNCHANGED <<now, windows, keys, public, cache, admitted, latest, arrivals>>
  BY DEF LookupPublicKey
<1>2. CASE Refuse(r)
  BY <1>1, <1>2, RefuseStep
<1>3. ASSUME NEW v \in ActiveVersions(env.sender),
             req' = Noted([req EXCEPT ![r].env = env, ![r].hex = public[env.sender][v].hex,
                                      ![r].pc = "verify"], public)
      PROVE  DoorInv'
  <2>1. req \in [Reqs -> Request] /\ req[r] \in Request /\ Fits(req[r])
    BY DEF DoorInv, AccessTypeOK
  <2>2. /\ v \in DOMAIN public[env.sender] /\ public[env.sender][v].active
        /\ public[env.sender][v] \in PublicKey
    BY <1>3 DEF ActiveVersions, DoorInv, AccessTypeOK, Envelope
  <2>3. PICK h \in Hexes : h = public[env.sender][v].hex
    BY <2>2 DEF PublicKey
  <2>4. PICK q \in Request : q = [req[r] EXCEPT !.env = env, !.hex = h, !.pc = "verify"]
    BY <2>1 DEF Request, AccessSteps
  <2>5. /\ q.env = env /\ q.hex = h /\ q.pc = "verify" /\ q.late = req[r].late /\ q.op = req[r].op
    BY <2>1, <2>4 DEF Request
  <2>6. PICK rs \in [Reqs -> Request] : rs = [req EXCEPT ![r] = q]
    BY <2>1
  <2>7. req' = Noted(rs, public)
    <3>1. [req EXCEPT ![r].env = env, ![r].hex = h, ![r].pc = "verify"] = [req EXCEPT ![r] = q]
      BY <2>1, <2>4
    <3> QED
      BY <1>3, <2>3, <2>6, <3>1
  <2>8. PICK n \in [Reqs -> Request] :
           /\ n = req'
           /\ \A x \in Reqs : Fits(rs[x]) => Fits(n[x])
           /\ n[r] = [q EXCEPT !.standing = n[r].standing]
           /\ (\E u \in DOMAIN public[env.sender] :
                 public[env.sender][u].active /\ public[env.sender][u].hex = env.by)
                 => n[r].standing = TRUE
    <3>1. rs[r] = q
      BY <2>1, <2>6
    <3>2. q.env = env /\ env # NoValue
      BY <2>5, AccessAssumption DEF Envelope
    <3>3. PICK table : table = public
      OBVIOUS
    <3>4. PICK n : n = Noted(rs, table)
      OBVIOUS
    <3>5. /\ n \in [Reqs -> Request]
          /\ \A x \in Reqs : Fits(rs[x]) => Fits(n[x])
      BY <3>4, NotedFits
    <3>6. n[r] = [rs[r] EXCEPT !.standing = n[r].standing]
      BY <3>4, NotedFits
    <3>7. Seen(q, table) => n[r].standing = TRUE
      BY <3>1, <3>4, NotedFits
    <3> QED
      BY <2>7, <3>1, <3>2, <3>3, <3>4, <3>5, <3>6, <3>7 DEF Seen
  <2>9. PICK p \in Request : p = n[r]
    OBVIOUS
  <2>10. /\ p.env = env /\ p.hex = h /\ p.pc = "verify" /\ p.late = req[r].late
         /\ p.op = req[r].op
    BY <2>5, <2>8, <2>9 DEF Request
  <2>11. env.by = h => p.standing
    BY <2>2, <2>3, <2>8, <2>9
  <2>12. Fits(p)
    BY <1>1, <2>1, <2>10, <2>11 DEF Fits, PassedInTime, OpsPlaced, Vouched, AtLimiter
  <2>13. \A x \in Reqs : Fits(n[x])
    <3>1. \A x \in Reqs : x # r => rs[x] = req[x]
      BY <2>1, <2>6
    <3> QED
      BY <2>8, <2>9, <2>12, <3>1 DEF DoorInv
  <2>14. /\ arrivals' \in 0..MaxStarts /\ arrivals' >= arrivals
         /\ public' \in [Agents -> Seq(PublicKey)] /\ keys' \in Seq(Key) /\ CacheHonest'
         /\ \A k \in DOMAIN keys : k \in DOMAIN keys' /\ (~keys[k].active => ~keys'[k].active)
    BY <1>1, AccessAssumption DEF DoorInv, AccessTypeOK, CacheHonest
  <2> QED
    BY <1>1, <2>8, <2>13, <2>14, RequestsStep
<1> QED
  BY <1>2, <1>3 DEF LookupPublicKey

\* A request that goes on within share_experience.
LEMMA GoesOn ==
    ASSUME DoorInv, NEW r \in Reqs, NEW step \in AccessSteps
    PROVE  \E q \in Request :
              /\ [req EXCEPT ![r].pc = step] = [req EXCEPT ![r] = q]
              /\ q.pc = step /\ q.op = req[r].op /\ q.late = req[r].late /\ q.env = req[r].env
              /\ q.hex = req[r].hex /\ q.agent = req[r].agent /\ q.standing = req[r].standing
<1>1. req[r] \in Request /\ req \in [Reqs -> Request]
  BY DEF DoorInv, AccessTypeOK
<1> DEFINE q == [req[r] EXCEPT !.pc = step]
<1>2. q \in Request /\ q.pc = step /\ q.op = req[r].op /\ q.late = req[r].late
      /\ q.env = req[r].env /\ q.hex = req[r].hex /\ q.agent = req[r].agent
      /\ q.standing = req[r].standing
  BY <1>1 DEF Request
<1>3. [req EXCEPT ![r].pc = step] = [req EXCEPT ![r] = q]
  BY <1>1
<1> QED
  BY <1>2, <1>3

\* The cache answers only for the key that made the signature.
LEMMA CachedSigned ==
    ASSUME DoorInv, NEW env \in Envelope, NEW hex, Cached(env, hex)
    PROVE  env.by = hex
<1>1. PICK e \in cache : e.key = CacheKey(env, hex)
  BY DEF Cached
<1>2. PICK other \in Envelope : e.key = CacheKey(other, other.by)
  BY DEF DoorInv, CacheHonest
<1>3. <<env.sender, hex, env>> = <<other.sender, other.by, other>>
  BY <1>1, <1>2 DEF CacheKey
<1> QED
  BY <1>3

LEMMA VerifyDoor == ASSUME NEW r \in Reqs, DoorInv, VerifyEnvelope(r) PROVE DoorInv'
<1>1. /\ req[r].pc = "verify"
      /\ UNCHANGED <<now, windows, keys, public, cache, admitted, latest, arrivals>>
  BY DEF VerifyEnvelope
<1>2. Fits(req[r])
  BY DEF DoorInv
<1>3. CASE Refuse(r)
  BY <1>1, <1>3, RefuseStep
<1>4. ASSUME NEW step \in {"insert", "store"}, Proceed(r, step),
             req[r].env.sender = req[r].agent, req[r].env.by = req[r].hex
      PROVE  DoorInv'
  <2>1. PICK q \in Request :
              /\ [req EXCEPT ![r].pc = step] = [req EXCEPT ![r] = q]
              /\ q.pc = step /\ q.op = req[r].op /\ q.late = req[r].late /\ q.env = req[r].env
              /\ q.hex = req[r].hex /\ q.agent = req[r].agent /\ q.standing = req[r].standing
    <3>1. step \in AccessSteps
      BY DEF AccessSteps
    <3> QED
      BY <3>1, GoesOn
  <2>2. Fits(q)
    BY <1>1, <1>2, <1>4, <2>1 DEF Fits, PassedInTime, OpsPlaced, Vouched, AtLimiter
  <2>3. req' = [req EXCEPT ![r] = q]
    BY <1>4, <2>1 DEF Proceed
  <2> QED
    BY <1>1, <2>2, <2>3, AnswerStep
<1>5. Cached(req[r].env, req[r].hex) => req[r].env.by = req[r].hex
  <2>1. req[r].env \in Envelope
    BY <1>1, <1>2 DEF Fits, Vouched
  <2> QED
    BY <2>1, CachedSigned
<1> QED
  BY <1>3, <1>4, <1>5 DEF VerifyEnvelope

LEMMA CacheDoor == ASSUME NEW r \in Reqs, DoorInv, CacheSignature(r) PROVE DoorInv'
<1>1. /\ req[r].pc = "insert" /\ Proceed(r, "store")
      /\ UNCHANGED <<now, windows, keys, public, admitted, latest, arrivals>>
      /\ cache' = {e \in cache : e.key # CacheKey(req[r].env, req[r].hex)}
                      \cup {[key |-> CacheKey(req[r].env, req[r].hex), at |-> now]}
  BY DEF CacheSignature
<1>2. Fits(req[r]) /\ now \in Nat
  BY AccessAssumption DEF DoorInv, AccessTypeOK
<1>3. PICK env \in Envelope : env = req[r].env /\ env.by = req[r].hex
  BY <1>1, <1>2 DEF Fits, Vouched
<1>4. CacheHonest'
  <2> SUFFICES ASSUME NEW e \in cache'
               PROVE  e.at \in Nat /\ \E other \in Envelope : e.key = CacheKey(other, other.by)
    BY DEF CacheHonest, CacheKey
  <2>1. CASE e \in cache
    BY <2>1 DEF DoorInv, CacheHonest
  <2>2. CASE e = [key |-> CacheKey(env, env.by), at |-> now]
    BY <1>2, <2>2
  <2> QED
    BY <1>1, <1>3, <2>1, <2>2
<1>5. PICK q \in Request :
          /\ [req EXCEPT ![r].pc = "store"] = [req EXCEPT ![r] = q]
          /\ q.pc = "store" /\ q.op = req[r].op /\ q.late = req[r].late /\ q.env = req[r].env
          /\ q.hex = req[r].hex /\ q.agent = req[r].agent /\ q.standing = req[r].standing
  <2>1. "store" \in AccessSteps
    BY DEF AccessSteps
  <2> QED
    BY <2>1, GoesOn
<1>6. Fits(q)
  BY <1>1, <1>2, <1>5 DEF Fits, PassedInTime, OpsPlaced, Vouched, AtLimiter
<1>7. req' = [req EXCEPT ![r] = q]
  BY <1>1, <1>5 DEF Proceed
<1>8. /\ arrivals' \in 0..MaxStarts /\ arrivals' >= arrivals
      /\ public' \in [Agents -> Seq(PublicKey)] /\ keys' \in Seq(Key)
      /\ \A k \in DOMAIN keys : k \in DOMAIN keys' /\ (~keys[k].active => ~keys'[k].active)
  BY <1>1, AccessAssumption DEF DoorInv, AccessTypeOK
<1> QED
  BY <1>1, <1>4, <1>6, <1>7, <1>8, RequestStep

LEMMA StoreDoor == ASSUME NEW r \in Reqs, DoorInv, StoreGene(r) PROVE DoorInv'
<1>1. /\ req[r].pc = "store" /\ Proceed(r, "served") /\ Fits(req[r])
      /\ UNCHANGED <<now, windows, keys, public, cache, admitted, latest, arrivals>>
  BY DEF StoreGene, DoorInv
<1>2. PICK q \in Request :
          /\ [req EXCEPT ![r].pc = "served"] = [req EXCEPT ![r] = q]
          /\ q.pc = "served" /\ q.op = req[r].op /\ q.late = req[r].late /\ q.env = req[r].env
          /\ q.hex = req[r].hex /\ q.agent = req[r].agent /\ q.standing = req[r].standing
  <2>1. "served" \in AccessSteps
    BY DEF AccessSteps
  <2> QED
    BY <2>1, GoesOn
<1>3. Fits(q)
  BY <1>1, <1>2 DEF Fits, PassedInTime, OpsPlaced, Vouched, AtLimiter
<1>4. req' = [req EXCEPT ![r] = q]
  BY <1>1, <1>2 DEF Proceed
<1> QED
  BY <1>1, <1>3, <1>4, AnswerStep

\* The handlers that serve, refuse or answer.
LEMMA HandlersDoor ==
    ASSUME NEW r \in Reqs, DoorInv,
           \/ Fetch(r) \/ ReadAsset(r) \/ ProposeAsset(r) \/ GovernAsset(r)
           \/ (\E a \in Agents : Use(r, a)) \/ RejectEnvelope(r) \/ Answer(r)
    PROVE  DoorInv'
<1>1. UNCHANGED <<now, windows, keys, public, cache, admitted, latest, arrivals>>
  BY DEF Fetch, ReadAsset, ProposeAsset, GovernAsset, Use, RejectEnvelope, Answer
<1>2. Refuse(r) \/ (req[r].pc = "act" /\ Proceed(r, "served"))
  BY DEF Fetch, ReadAsset, ProposeAsset, GovernAsset, Use, RejectEnvelope, Answer, Refuse
<1> QED
  BY <1>1, <1>2, RefuseStep, ServeStep

-----------------------------------------------------------------------------
(* The limiter. *)

\* Time passes without the limiters.
LEMMA TickDoor == ASSUME DoorInv, Tick PROVE DoorInv'
<1>1. /\ UNCHANGED <<windows, keys, public, cache, req, admitted, latest, arrivals>>
      /\ now < MaxNow /\ now' = now + 1 /\ now \in Nat /\ MaxNow \in Nat
  BY AccessAssumption DEF Tick, DoorInv, AccessTypeOK
<1>2. AccessTypeOK'
  BY <1>1 DEF DoorInv, AccessTypeOK
<1>3. CacheHonest' /\ \A r \in Reqs : Fits(req[r])'
  BY <1>1 DEF DoorInv, CacheHonest, Fits, ComesWithKey, PassedInTime, OpsPlaced, Vouched, AtLimiter
<1>4. WindowsFaithful'
  BY <1>1 DEF DoorInv, WindowsFaithful, InOrder
<1> QED
  BY <1>2, <1>3, <1>4 DEF DoorInv

\* A set of entries that is not empty has one that was pushed first.
LEMMA FirstEntry ==
    ASSUME NEW S \in SUBSET Entry, S # {}
    PROVE  First(S) \in S
<1> DEFINE T == {e.number : e \in S}
<1>1. T \in SUBSET Nat /\ T # {}
  BY DEF Entry
<1>2. PICK m \in T : \A k \in T : ~(<<k, m>> \in OpToRel(<, Nat))
  BY <1>1, NatLessThanWellFounded, WFMin
<1>3. PICK e \in S : e.number = m
  OBVIOUS
<1>4. \A f \in S : e.number <= f.number
  <2>1. ASSUME NEW f \in S PROVE m <= f.number
    <3>1. f.number \in T /\ f.number \in Nat /\ m \in Nat
      BY <1>1
    <3>2. ~(f.number < m)
      BY <1>2, <3>1 DEF OpToRel
    <3> QED
      BY <3>1, <3>2
  <2> QED
    BY <1>3, <2>1
<1> QED
  BY <1>4 DEF First

\* Whoever waits as told finds room: the first entry has left by then.
LEMMA RoomLater ==
    ASSUME NEW t \in Nat, NEW kept \in SUBSET Entry, IsFiniteSet(kept),
           \A e \in kept : e.time + Window > t,
           kept # {}, Cardinality(kept) <= Limit, NEW wait, NEW at,
           wait = First(kept).time + Window - t,
           at = t + (IF wait > 1 THEN wait ELSE 1)
    PROVE  /\ Cardinality({e \in kept : e.time + Window > at}) \in Nat
           /\ Cardinality({e \in kept : e.time + Window > at}) < Limit
<1>1. PICK o \in kept : o = First(kept)
  BY FirstEntry
<1>2. o.time \in Nat /\ Window \in Nat /\ Limit \in Nat /\ o.time + Window > t
  BY AccessAssumption DEF Entry
<1>3. at >= o.time + Window /\ at \in Nat
  <2>1. wait = o.time + Window - t /\ wait \in Nat
    BY <1>1, <1>2
  <2> QED
    BY <1>2, <2>1
<1> DEFINE left == {e \in kept : e.time + Window > at}
<1>4. left \in SUBSET (kept \ {o})
  BY <1>2, <1>3
<1>5. /\ IsFiniteSet(kept \ {o}) /\ Cardinality(kept \ {o}) = Cardinality(kept) - 1
      /\ Cardinality(kept) \in Nat
  BY FS_RemoveElement, FS_CardinalityType
<1>6. IsFiniteSet(left) /\ Cardinality(left) <= Cardinality(kept \ {o})
  BY <1>4, <1>5, FS_Subset
<1>7. Cardinality(left) \in Nat
  BY <1>6, FS_CardinalityType
<1> QED
  BY <1>2, <1>5, <1>6, <1>7

\* The windows of the other slots stand.
LEMMA OtherSlots ==
    ASSUME DoorInv, NEW slot \in Limiters \X Clients, NEW W \in SUBSET Entry, NEW A \in SUBSET Entry,
           NEW l \in Nat,
           windows' = [windows EXCEPT ![slot] = W], admitted' = [admitted EXCEPT ![slot] = A],
           latest' = [latest EXCEPT ![slot] = l],
           IsFiniteSet(A), W \subseteq A,
           \A e \in A : e.time + Window > l => e \in W,
           Cardinality(W) <= Limit,
           \A t \in Nat : Cardinality(InOrder(A, t)) <= Limit
    PROVE  WindowsFaithful'
<1>1. /\ windows'[slot] = W /\ admitted'[slot] = A /\ latest'[slot] = l
      /\ \A other \in Limiters \X Clients :
            other # slot => /\ windows'[other] = windows[other] /\ admitted'[other] = admitted[other]
                            /\ latest'[other] = latest[other]
  BY DEF DoorInv, AccessTypeOK
<1> SUFFICES ASSUME NEW other \in Limiters \X Clients
             PROVE  /\ IsFiniteSet(admitted'[other])
                    /\ windows'[other] \subseteq admitted'[other]
                    /\ \A e \in admitted'[other] :
                          e.time + Window > latest'[other] => e \in windows'[other]
                    /\ Cardinality(windows'[other]) <= Limit
                    /\ \A t \in Nat : Cardinality(InOrder(admitted'[other], t)) <= Limit
  BY DEF WindowsFaithful, InOrder
<1>2. CASE other = slot
  BY <1>1, <1>2
<1>3. CASE other # slot
  BY <1>1, <1>3 DEF DoorInv, WindowsFaithful
<1> QED
  BY <1>2, <1>3

\* A request reads the clock and goes to its limiter.
LEMMA ReadClockDoor ==
    ASSUME NEW r \in Reqs, NEW op \in Ops, NEW k \in 0..MaxKeys, NEW c \in Clients,
           DoorInv, ReadClock(r, op, k, c)
    PROVE  DoorInv'
<1>1. k \in Nat /\ MayAsk(r, "http", op, k) /\ now \in Nat
  BY AccessAssumption DEF ReadClock, DoorInv, AccessTypeOK
<1>2. PICK asked \in Request :
         /\ asked = Asks("http", op, k, c) /\ ComesWithKey(asked)
         /\ asked.op = op /\ asked.via = "http"
  BY <1>1, AsksTyped
<1>3. PICK q \in Request : q = [asked EXCEPT !.pc = "limit", !.stamp = now]
  BY <1>1 DEF Request, AccessSteps
<1>4. /\ q.pc = "limit" /\ q.op = op /\ q.via = "http" /\ q.key = asked.key
      /\ q.late = asked.late
  BY <1>2, <1>3 DEF Request
<1>5. LimiterOf("http", op) \in Limiters
  BY DEF ReadClock, LimiterOf, Limiters
<1>6. Fits(q)
  BY <1>2, <1>4, <1>5 DEF Fits, ComesWithKey, PassedInTime, OpsPlaced, Vouched, AtLimiter
<1>7. /\ UNCHANGED <<now, windows, keys, public, cache, admitted, latest>>
      /\ arrivals' = arrivals + 1 /\ arrivals < MaxStarts /\ req' = [req EXCEPT ![r] = q]
  BY <1>2, <1>3 DEF ReadClock, MayAsk
<1>8. /\ arrivals' \in 0..MaxStarts /\ arrivals' >= arrivals
      /\ public' \in [Agents -> Seq(PublicKey)] /\ keys' \in Seq(Key) /\ CacheHonest'
      /\ \A l \in DOMAIN keys : l \in DOMAIN keys' /\ (~keys[l].active => ~keys'[l].active)
  BY <1>7, AccessAssumption DEF DoorInv, AccessTypeOK, CacheHonest
<1> QED
  BY <1>6, <1>7, <1>8, RequestStep

\* check counts what the window still holds and admits below the limit.
LEMMA CheckLimitDoor == ASSUME NEW r \in Reqs, DoorInv, CheckLimit(r) PROVE DoorInv'
<1>0. /\ req[r] \in Request /\ Fits(req[r]) /\ req[r].pc = "limit" /\ req \in [Reqs -> Request]
      /\ req[r].client \in Clients
  BY DEF CheckLimit, DoorInv, AccessTypeOK, Request
<1>1. PICK slot \in Limiters \X Clients : slot = <<LimiterOf(req[r].via, req[r].op), req[r].client>>
  BY <1>0 DEF Fits, AtLimiter
<1>2. PICK t \in Nat : t = req[r].stamp
  BY <1>0 DEF Request
<1>3. PICK kept : kept = Cleaned(windows[slot], t)
  OBVIOUS
<1>4. PICK wait : wait = First(kept).time + Window - t
  OBVIOUS
<1>5. PICK at : at = t + (IF wait > 1 THEN wait ELSE 1)
  OBVIOUS
<1>6. PICK new : new = [number |-> Cardinality(admitted[slot]) + 1, time |-> t,
                        overtaken |-> t < latest[slot]]
  OBVIOUS
<1>7. /\ latest' = [latest EXCEPT ![slot] = IF t < @ THEN @ ELSE t]
      /\ UNCHANGED <<now, keys, public, cache, arrivals>>
      /\ IF Cardinality(kept) >= Limit
         THEN /\ windows' = [windows EXCEPT ![slot] = kept]
              /\ req' = [req EXCEPT ![r] =
                           [Idle EXCEPT !.pc = "limited",
                              !.left = Cardinality({e \in kept : e.time + Window > at})]]
              /\ UNCHANGED admitted
         ELSE /\ windows' = [windows EXCEPT ![slot] = kept \cup {new}]
              /\ admitted' = [admitted EXCEPT ![slot] = @ \cup {new}]
              /\ req' = [req EXCEPT
                           ![r].pc = IF req[r].op = "fetch" THEN "act" ELSE "auth",
                           ![r].stamp = 0]
  BY <1>1, <1>2, <1>3, <1>4, <1>5, <1>6 DEF CheckLimit
<1>8. /\ latest[slot] \in Nat /\ latest \in [Limiters \X Clients -> Nat]
      /\ windows[slot] \in SUBSET Entry /\ admitted[slot] \in SUBSET Entry
      /\ windows \in [Limiters \X Clients -> SUBSET Entry]
      /\ admitted \in [Limiters \X Clients -> SUBSET Entry]
      /\ Limit \in Nat \ {0} /\ Window \in Nat
  BY AccessAssumption DEF DoorInv, AccessTypeOK
<1>9. /\ IsFiniteSet(admitted[slot]) /\ windows[slot] \subseteq admitted[slot]
      /\ \A e \in admitted[slot] : e.time + Window > latest[slot] => e \in windows[slot]
      /\ Cardinality(windows[slot]) <= Limit
      /\ \A u \in Nat : Cardinality(InOrder(admitted[slot], u)) <= Limit
  BY DEF DoorInv, WindowsFaithful
<1>10. PICK l \in Nat : l = IF t < latest[slot] THEN latest[slot] ELSE t
  BY <1>8
<1>11. l >= t /\ l >= latest[slot] /\ latest' = [latest EXCEPT ![slot] = l]
  BY <1>7, <1>8, <1>10
<1>12. /\ kept \in SUBSET windows[slot] /\ kept \in SUBSET Entry
       /\ \A e \in kept : e.time + Window > t
  BY <1>3, <1>8 DEF Cleaned
<1>13. ASSUME NEW e \in admitted[slot], e.time + Window > l PROVE e \in kept
  <2>1. e.time \in Nat
    BY <1>8 DEF Entry
  <2>2. e.time + Window > t /\ e.time + Window > latest[slot]
    BY <1>8, <1>11, <1>13, <2>1
  <2> QED
    BY <1>3, <1>9, <2>2 DEF Cleaned
<1>14. IsFiniteSet(windows[slot]) /\ IsFiniteSet(kept) /\ Cardinality(kept) \in Nat
       /\ Cardinality(kept) <= Limit
  <2>1. IsFiniteSet(windows[slot])
    BY <1>9, FS_Subset
  <2>2. IsFiniteSet(kept) /\ Cardinality(kept) <= Cardinality(windows[slot])
    BY <1>12, <2>1, FS_Subset
  <2>3. Cardinality(windows[slot]) \in Nat /\ Cardinality(kept) \in Nat
    BY <2>1, <2>2, FS_CardinalityType
  <2> QED
    BY <1>8, <1>9, <2>1, <2>2, <2>3
<1>15. ASSUME NEW q \in Request, req' = [req EXCEPT ![r] = q], Fits(q), WindowsFaithful',
              windows' \in [Limiters \X Clients -> SUBSET Entry],
              admitted' \in [Limiters \X Clients -> SUBSET Entry]
       PROVE  DoorInv'
  <2>1. /\ req' \in [Reqs -> Request] /\ req'[r] = q /\ \A x \in Reqs : x # r => req'[x] = req[x]
    BY <1>15 DEF DoorInv, AccessTypeOK
  <2>2. latest' \in [Limiters \X Clients -> Nat]
    BY <1>8, <1>11
  <2>3. AccessTypeOK' /\ CacheHonest'
    BY <1>7, <1>15, <2>1, <2>2 DEF DoorInv, AccessTypeOK, CacheHonest
  <2>4. \A x \in Reqs : Fits(req'[x])
    BY <1>15, <2>1 DEF DoorInv
  <2>5. ASSUME NEW x \in Reqs PROVE Fits(req[x])'
    <3>1. PICK p : p = req'[x] /\ Fits(p)
      BY <2>4
    <3> QED
      BY <1>7, <3>1 DEF Fits, ComesWithKey, PassedInTime, OpsPlaced, Vouched, AtLimiter
  <2> QED
    BY <1>15, <2>3, <2>5 DEF DoorInv
<1>16. CASE Cardinality(kept) >= Limit
  <2>1. kept # {}
    BY <1>8, <1>14, <1>16, FS_EmptySet
  <2>2. PICK left \in Nat : left = Cardinality({e \in kept : e.time + Window > at}) /\ left < Limit
    <3>1. PICK K \in SUBSET Entry : K = kept
      BY <1>12
    <3>2. /\ IsFiniteSet(K) /\ (\A e \in K : e.time + Window > t) /\ K # {}
          /\ Cardinality(K) <= Limit /\ wait = First(K).time + Window - t
      BY <1>4, <1>12, <1>14, <2>1, <3>1
    <3>3. /\ Cardinality({e \in K : e.time + Window > at}) \in Nat
          /\ Cardinality({e \in K : e.time + Window > at}) < Limit
      BY <1>5, <3>2, RoomLater
    <3> QED
      BY <3>1, <3>3
  <2>3. PICK q \in Request : q = [Idle EXCEPT !.pc = "limited", !.left = left]
    BY IdleFits DEF Request, AccessSteps
  <2>4. q.pc = "limited" /\ q.left = left
    BY <2>3, IdleFits DEF Request
  <2>5. Fits(q)
    BY <2>2, <2>4 DEF Fits, PassedInTime, OpsPlaced, Vouched, AtLimiter
  <2>6. req' = [req EXCEPT ![r] = q] /\ windows' = [windows EXCEPT ![slot] = kept] /\ admitted' = admitted
    BY <1>7, <1>16, <2>2, <2>3
  <2>7. admitted' = [admitted EXCEPT ![slot] = admitted[slot]]
    BY <1>8, <2>6
  <2>8. kept \subseteq admitted[slot]
    BY <1>9, <1>12
  <2>9. WindowsFaithful'
    BY <1>8, <1>9, <1>11, <1>12, <1>13, <1>14, <2>6, <2>7, <2>8, OtherSlots
  <2>10. /\ windows' \in [Limiters \X Clients -> SUBSET Entry]
         /\ admitted' \in [Limiters \X Clients -> SUBSET Entry]
    BY <1>8, <1>12, <2>6
  <2> QED
    BY <1>15, <2>5, <2>6, <2>9, <2>10
<1>17. CASE ~(Cardinality(kept) >= Limit)
  <2>1. PICK step \in {"act", "auth"} : step = IF req[r].op = "fetch" THEN "act" ELSE "auth"
    OBVIOUS
  <2>2. PICK q \in Request : q = [req[r] EXCEPT !.pc = step, !.stamp = 0]
    BY <1>0 DEF Request, AccessSteps
  <2>3. q.pc = step /\ q.op = req[r].op /\ q.key = req[r].key /\ q.late = req[r].late
    BY <1>0, <2>2 DEF Request
  <2>4. ComesWithKey(req[r])
    BY <1>0 DEF Fits
  <2>5. Fits(q)
    BY <2>1, <2>3, <2>4 DEF Fits, ComesWithKey, PassedInTime, OpsPlaced, Vouched, AtLimiter,
       PublicKeyOps
  <2>6. /\ req' = [req EXCEPT ![r] = q] /\ windows' = [windows EXCEPT ![slot] = kept \cup {new}]
        /\ admitted' = [admitted EXCEPT ![slot] = admitted[slot] \cup {new}]
    BY <1>0, <1>7, <1>17, <2>1, <2>2
  <2> DEFINE W == kept \cup {new}
             A == admitted[slot] \cup {new}
  <2>7. new \in Entry /\ new.time = t /\ new.overtaken = (t < latest[slot])
    <3>1. Cardinality(admitted[slot]) \in Nat
      BY <1>9, FS_CardinalityType
    <3> QED
      BY <1>6, <3>1 DEF Entry
  <2>8. W \in SUBSET Entry /\ A \in SUBSET Entry /\ W \subseteq A
    BY <1>8, <1>9, <1>12, <2>7
  <2>9. IsFiniteSet(A) /\ IsFiniteSet(W) /\ Cardinality(W) <= Limit
    <3>1. /\ IsFiniteSet(admitted[slot] \cup {new}) /\ IsFiniteSet(kept \cup {new})
          /\ Cardinality(kept \cup {new}) =
                IF new \in kept THEN Cardinality(kept) ELSE Cardinality(kept) + 1
      BY <1>9, <1>14, FS_AddElement
    <3>2. Cardinality(kept \cup {new}) <= Limit
      BY <1>8, <1>14, <1>17, <3>1
    <3> QED
      BY <3>1, <3>2
  <2>10. ASSUME NEW e \in A, e.time + Window > l PROVE e \in W
    BY <1>13, <2>10
  <2>11. ASSUME NEW u \in Nat PROVE Cardinality(InOrder(A, u)) <= Limit
    <3>1. CASE u < t \/ t < latest[slot]
      <4>1. new \notin InOrder(A, u)
        <5>1. CASE u < t
          BY <1>8, <2>7, <5>1 DEF InOrder
        <5>2. CASE t < latest[slot]
          <6>1. new.overtaken
            BY <2>7, <5>2, Zenon
          <6> QED
            BY <6>1 DEF InOrder
        <5> QED
          BY <3>1, <5>1, <5>2
      <4>2. InOrder(A, u) = InOrder(admitted[slot], u)
        BY <4>1 DEF InOrder
      <4> QED
        BY <1>9, <4>2
    <3>2. CASE u >= t /\ ~(t < latest[slot])
      <4>1. ASSUME NEW e \in InOrder(A, u) PROVE e \in W
        <5>1. e \in A /\ e.time + Window > u /\ e.time \in Nat
          BY <2>8 DEF InOrder, Entry
        <5>2. e.time + Window > l
          BY <1>8, <1>10, <3>2, <5>1
        <5> QED
          BY <2>10, <5>1, <5>2
      <4>2. InOrder(A, u) \in SUBSET W
        BY <4>1
      <4>3. Cardinality(InOrder(A, u)) <= Cardinality(W) /\ IsFiniteSet(InOrder(A, u))
        BY <2>9, <4>2, FS_Subset
      <4>4. Cardinality(InOrder(A, u)) \in Nat /\ Cardinality(W) \in Nat
        BY <2>9, <4>3, FS_CardinalityType
      <4> QED
        BY <1>8, <2>9, <4>3, <4>4
    <3> QED
      BY <1>8, <3>1, <3>2
  <2> HIDE DEF W, A
  <2>12. windows' = [windows EXCEPT ![slot] = W] /\ admitted' = [admitted EXCEPT ![slot] = A]
    BY <2>6 DEF W, A
  <2>13. PICK W1 \in SUBSET Entry : W1 = W
    BY <2>8
  <2>14. PICK A1 \in SUBSET Entry : A1 = A
    BY <2>8
  <2>15. WindowsFaithful'
    BY <1>11, <2>8, <2>9, <2>10, <2>11, <2>12, <2>13, <2>14, OtherSlots
  <2>16. /\ windows' \in [Limiters \X Clients -> SUBSET Entry]
         /\ admitted' \in [Limiters \X Clients -> SUBSET Entry]
    BY <1>8, <2>8, <2>12
  <2> QED
    BY <1>15, <2>5, <2>6, <2>15, <2>16
<1> QED
  BY <1>16, <1>17

-----------------------------------------------------------------------------
(* Steps of the door. *)

\* Whatever keys and honest signatures the server is met with, and as many requests
\* of the first second as there is room for.
LEMMA StartDoor ==
    ASSUME NEW k \in Seq(Key), NEW p \in [Agents -> Seq(PublicKey)], NEW c,
           NEW w \in SUBSET Entry, AccessStart(k, p, c, w),
           IsFiniteSet(w), Cardinality(w) <= Limit,
           \A e \in c : e.at \in Nat /\ \E env \in Envelope : e.key = CacheKey(env, env.by)
    PROVE  DoorInv
<1>1. /\ now = 0 /\ keys = k /\ public = p /\ cache = c /\ arrivals = 0
      /\ windows = [l \in Limiters \X Clients |-> w] /\ admitted = [l \in Limiters \X Clients |-> w]
      /\ latest = [l \in Limiters \X Clients |-> 0]
      /\ req = [r \in Reqs |-> Idle]
  BY DEF AccessStart
<1>2. AccessTypeOK
  <2>1. req \in [Reqs -> Request]
    BY <1>1, IdleFits
  <2>2. /\ windows \in [Limiters \X Clients -> SUBSET Entry]
        /\ admitted \in [Limiters \X Clients -> SUBSET Entry]
    BY <1>1
  <2> QED
    BY <1>1, <2>1, <2>2, AccessAssumption DEF AccessTypeOK
<1>3. \A r \in Reqs : Fits(req[r])
  BY <1>1, IdleFits
<1>4. CacheHonest
  BY <1>1 DEF CacheHonest
<1>5. WindowsFaithful
  <2>1. ASSUME NEW t \in Nat PROVE Cardinality(InOrder(w, t)) <= Limit
    <3>1. InOrder(w, t) \in SUBSET w
      BY DEF InOrder
    <3>2. IsFiniteSet(InOrder(w, t)) /\ Cardinality(InOrder(w, t)) <= Cardinality(w)
      BY <3>1, FS_Subset
    <3>3. Cardinality(InOrder(w, t)) \in Nat /\ Cardinality(w) \in Nat /\ Limit \in Nat
      BY <3>2, FS_CardinalityType, AccessAssumption
    <3> QED
      BY <3>2, <3>3
  <2>2. \A slot \in Limiters \X Clients : windows[slot] = w /\ admitted[slot] = w
    BY <1>1
  <2> QED
    BY <2>1, <2>2 DEF WindowsFaithful
<1> QED
  BY <1>2, <1>3, <1>4, <1>5 DEF DoorInv

\* A window of Limit requests holds no more than Limit.
LEMMA FullWindowFits ==
    FullWindow \in SUBSET Entry /\ IsFiniteSet(FullWindow) /\ Cardinality(FullWindow) <= Limit
<1>1. Limit \in Nat
  BY AccessAssumption
<1> DEFINE f == [n \in 1..Limit |-> [number |-> n, time |-> 0, overtaken |-> FALSE]]
<1>2. FullWindow \in SUBSET Entry
  <2>1. ASSUME NEW n \in 1..Limit PROVE [number |-> n, time |-> 0, overtaken |-> FALSE] \in Entry
    BY <1>1 DEF Entry
  <2> QED
    BY <2>1 DEF FullWindow
<1>3. IsFiniteSet(1..Limit) /\ Cardinality(1..Limit) = Limit
  BY <1>1, FS_Interval
<1>4. f \in Surjection(1..Limit, FullWindow)
  BY DEF FullWindow, Surjection
<1> HIDE DEF f
<1>5. IsFiniteSet(FullWindow) /\ Cardinality(FullWindow) <= Cardinality(1..Limit)
  BY <1>3, <1>4, FS_Surjection
<1> QED
  BY <1>2, <1>3, <1>5

LEMMA InitDoor == ExperienceInit => DoorInv
<1>0. {} \in SUBSET Entry /\ IsFiniteSet({}) /\ Cardinality({}) <= Limit
  BY FS_EmptySet, AccessAssumption
<1>1. ASSUME AccessInit PROVE DoorInv
  <2>1. PICK a \in Agents, h \in Hexes, w \in {{}, FullWindow} :
          \E c \in {{}, {[key |-> CacheKey([sender |-> a, by |-> h], h), at |-> 0]}} :
            AccessStart(<<[agent |-> a, active |-> TRUE, expires |-> NoValue,
                           scopes |-> {"govern", "admin", "write"}, known |-> TRUE]>>,
                        [b \in Agents |-> IF a = b THEN <<[hex |-> h, active |-> TRUE]>> ELSE <<>>],
                        c, w)
    BY <1>1 DEF AccessInit
  <2>2. PICK c \in {{}, {[key |-> CacheKey([sender |-> a, by |-> h], h), at |-> 0]}} :
            AccessStart(<<[agent |-> a, active |-> TRUE, expires |-> NoValue,
                           scopes |-> {"govern", "admin", "write"}, known |-> TRUE]>>,
                        [b \in Agents |-> IF a = b THEN <<[hex |-> h, active |-> TRUE]>> ELSE <<>>],
                        c, w)
    BY <2>1
  <2>3. PICK k \in Seq(Key) :
          k = <<[agent |-> a, active |-> TRUE, expires |-> NoValue,
                 scopes |-> {"govern", "admin", "write"}, known |-> TRUE]>>
    <3>1. PICK first \in Key :
            first = [agent |-> a, active |-> TRUE, expires |-> NoValue,
                     scopes |-> {"govern", "admin", "write"}, known |-> TRUE]
      BY DEF Key, ApiScopes
    <3>2. <<first>> \in Seq(Key)
      OBVIOUS
    <3> QED
      BY <3>1, <3>2
  <2>4. PICK p \in [Agents -> Seq(PublicKey)] :
          p = [b \in Agents |-> IF a = b THEN <<[hex |-> h, active |-> TRUE]>> ELSE <<>>]
    <3>1. [hex |-> h, active |-> TRUE] \in PublicKey
      BY DEF PublicKey
    <3>2. <<[hex |-> h, active |-> TRUE]>> \in Seq(PublicKey) /\ <<>> \in Seq(PublicKey)
      BY <3>1
    <3> QED
      BY <3>2
  <2>5. PICK env \in Envelope : env = [sender |-> a, by |-> h] /\ env.by = h
    BY DEF Envelope
  <2>6. \A e \in c : e.at \in Nat /\ e.key = CacheKey(env, env.by)
    BY <2>2, <2>5
  <2>7. w \in SUBSET Entry /\ IsFiniteSet(w) /\ Cardinality(w) <= Limit
    BY <1>0, FullWindowFits
  <2> QED
    BY <2>2, <2>3, <2>4, <2>6, <2>7, StartDoor
<1>2. ASSUME AccessStart(<<>>, [a \in Agents |-> <<>>], {}, {}) PROVE DoorInv
  <2>0. <<>> \in Seq(Key) /\ <<>> \in Seq(PublicKey)
    OBVIOUS
  <2>1. PICK k \in Seq(Key) : k = <<>>
    BY <2>0
  <2>2. PICK p \in [Agents -> Seq(PublicKey)] : p = [a \in Agents |-> <<>>]
    BY <2>0
  <2>3. AccessStart(k, p, {}, {})
    BY <1>2, <2>1, <2>2
  <2> QED
    BY <1>0, <2>3, StartDoor
<1> QED
  BY <1>1, <1>2 DEF ExperienceInit

\* Every step of the door, or of the gene, keeps the invariant of the door.
LEMMA DoorStep == ASSUME DoorInv, [AccessNext]_access_vars PROVE DoorInv'
<1>1. CASE UNCHANGED access_vars
  BY <1>1 DEF access_vars, DoorInv, AccessTypeOK, Fits, ComesWithKey, PassedInTime, OpsPlaced,
     Vouched, AtLimiter, CacheHonest, WindowsFaithful, InOrder
<1>2. CASE AccessNext
  BY <1>2, TickDoor, ArriveUnlimitedDoor, ReadClockDoor, CheckLimitDoor, AuthenticateDoor,
     HeaderDoor, HandlersDoor,
     CreateKeyDoor, RevokeKeyDoor, RotateKeyDoor, RegisterDoor, RevokePublicDoor, LookupDoor,
     VerifyDoor, CacheDoor, StoreDoor DEF AccessNext
<1> QED
  BY <1>1, <1>2

-----------------------------------------------------------------------------
(* Theorems. *)

\* Both invariants hold in every behaviour of the experience server.
THEOREM Inductive == ExperienceSpec => [](GeneInv /\ DoorInv)
<1>1. ExperienceInit => GeneInv /\ DoorInv
  BY InitGene, InitDoor DEF ExperienceInit
<1>2. ASSUME GeneInv, DoorInv, [ExperienceNext]_<<half, access_vars, vars>>
      PROVE  GeneInv' /\ DoorInv'
  <2>1. [Next]_vars /\ [AccessNext]_access_vars
    BY <1>2 DEF ExperienceNext
  <2> QED
    BY <1>2, <2>1, GeneStep, DoorStep
<1> QED
  BY <1>1, <1>2, PTL DEF ExperienceSpec

\* The row, the receipts, the keys, the windows and the requests keep their types.
THEOREM TypeCorrect == ExperienceSpec => [](TypeOK /\ AccessTypeOK)
<1>1. GeneInv /\ DoorInv => TypeOK /\ AccessTypeOK
  BY DEF GeneInv, DoorInv
<1> QED
  BY <1>1, Inductive, PTL

\* No gene is stable or shared unless its receipts were once enough, however many
\* processes overwrite each other's row and wherever their calls stop.
THEOREM StableIsEarned == ExperienceSpec => []StableWasEarned
<1>1. GeneInv /\ DoorInv => StableWasEarned
  BY DEF GeneInv
<1> QED
  BY <1>1, Inductive, PTL

\* After record_outcome has run to its end without overlap the counters of the gene
\* are those of its receipts, whatever calls were cut short before.
THEOREM CountersAreHealed == ExperienceSpec => []CountersHeal
<1>1. GeneInv /\ DoorInv => CountersHeal
  BY DEF GeneInv
<1> QED
  BY <1>1, Inductive, PTL

\* In serial use no gene is stable over a safety failure or two failures in a row,
\* in whatever order the receipts come.
THEOREM UnsafeIsNotStable == ExperienceSpec => []UnsafeNotStable
<1>1. GeneInv /\ DoorInv => UnsafeNotStable
  BY DEF GeneInv, Judged, Sound, UnsafeNotStable
<1> QED
  BY <1>1, Inductive, PTL

\* A request without a key of the store, or with one revoked before it arrived, is
\* served nothing but the search of genes and the list of public keys.
THEOREM RevokedIsNotServed == ExperienceSpec => []RevokedNeverServed
<1>1. GeneInv /\ DoorInv => RevokedNeverServed
  BY DEF DoorInv, Fits, PassedInTime, RevokedNeverServed
<1> QED
  BY <1>1, Inductive, PTL

\* A gene is published only under a key that was its sender's active one during
\* the request, whatever the signature cache holds.
THEOREM PublishedIsVouched == ExperienceSpec => []PublishedUnderActiveKey
<1>1. GeneInv /\ DoorInv => PublishedUnderActiveKey
  BY DEF DoorInv, Fits, Vouched, PublishedUnderActiveKey
<1> QED
  BY <1>1, Inductive, PTL

\* No window of the limiter's length holds more admitted requests than the limit,
\* but for those that were overtaken on the way to it; the window behind the latest
\* time holds no more with them; and whoever waits for Retry-After finds room.
THEOREM LimitIsKept == ExperienceSpec => []RateLimitSound
<1>1. ASSUME DoorInv PROVE RateLimitSound
  <2>1. ASSUME NEW slot \in Limiters \X Clients, NEW t \in 1..MaxNow
        PROVE  Cardinality({e \in admitted[slot] :
                   e.time <= t /\ e.time + Window > t /\ ~e.overtaken}) <= Limit
    <3>1. t \in Nat
      OBVIOUS
    <3>2. Cardinality(InOrder(admitted[slot], t)) <= Limit
      BY <1>1, <3>1 DEF DoorInv, WindowsFaithful
    <3> QED
      BY <3>2 DEF InOrder
  <2>2. ASSUME NEW slot \in Limiters \X Clients
        PROVE  Cardinality({e \in admitted[slot] : e.time + Window > latest[slot]}) <= Limit
    <3> DEFINE last == {e \in admitted[slot] : e.time + Window > latest[slot]}
    <3>1. /\ IsFiniteSet(admitted[slot]) /\ windows[slot] \subseteq admitted[slot]
          /\ last \subseteq windows[slot] /\ Cardinality(windows[slot]) <= Limit
      BY <1>1 DEF DoorInv, WindowsFaithful
    <3> HIDE DEF last
    <3>2. IsFiniteSet(windows[slot])
      BY <3>1, FS_Subset
    <3>3. IsFiniteSet(last) /\ Cardinality(last) <= Cardinality(windows[slot])
      BY <3>1, <3>2, FS_Subset
    <3>4. Cardinality(last) \in Nat /\ Cardinality(windows[slot]) \in Nat /\ Limit \in Nat
      BY <3>2, <3>3, FS_CardinalityType, AccessAssumption
    <3>5. Cardinality(last) <= Limit
      BY <3>1, <3>3, <3>4
    <3> QED
      BY <3>5 DEF last
  <2> QED
    BY <1>1, <2>1, <2>2 DEF RateLimitSound, DoorInv, Fits, AtLimiter
<1> QED
  BY <1>1, Inductive, PTL
===============================================================================
