---------------------------- MODULE Driver_proof ----------------------------
(***************************************************************************)
(* The driver, for every value of the constants: its cursors and the L2    *)
(* blocks of the engine stay what they are taken for, a payload whose      *)
(* parent is checked is built on one L1 history, and a reset of the cursor *)
(* after a reorg loses nothing, however L1 reorganises and whenever the    *)
(* process crashes.                                                        *)
(***************************************************************************)
EXTENDS Driver, FiniteSetTheorems, WellFoundedInduction, SequenceTheorems, TLAPS

-----------------------------------------------------------------------------
(* The inductive invariant *)

(* A header known on L1 or off it: its labels are of forks so far, and one  *)
(* that ends in a block of the current fork is on L1.                       *)
Held(hdr) ==
  /\ hdr \in Headers
  /\ \A k \in 1..Len(hdr) : hdr[k] <= forks
  /\ hdr # <<>> /\ Last(hdr) = forks => OnL1(hdr)

(* A proposal that was made: while its L1 block is on L1, it has its place  *)
Sound(p) ==
  /\ p \in Proposal
  /\ p.l1 # <<>> /\ Held(p.l1)
  /\ OnL1(p.l1) => p.id <= Len(derived) /\ derived[p.id] = p

(* A proposal that stays for good                                           *)
Certain(p) == p.id <= verified /\ derived[p.id] = p

(* e was read from L1 no earlier than p, or together with it                *)
Precedes(p, e) ==
  OnL1(p.l1) => /\ p.id < e.id => IsPrefix(p.l1, e.l1)
                /\ p.id = e.id => p = e

(* What the engine and the tracker hold                                     *)
EngineBlocks ==
  {b \in {eeHead, eeTarget, tracker.last} \cup {eeOrigin[id] : id \in BlockIDs} : b # None}
Inside == UNION {{b[k] : k \in 1..Len(b)} : b \in EngineBlocks}
Events == {iter.events[k] : k \in 1..Len(iter.events)}

L1Types ==
  /\ l1 \in Headers /\ derived \in Blocks
  /\ forks \in 0..MaxReorgs /\ dropped \in 0..MaxBlocks
  /\ verified \in 0..Len(derived)

(* A block of the engine with an L1Origin was built for that block ID, on   *)
(* no more blocks than there are lower IDs                                  *)
EngineTypes ==
  /\ eeHead \in Blocks /\ eeTarget \in Blocks \cup {None}
  /\ eeOrigin \in [BlockIDs -> Blocks \cup {None}]
  /\ \A id \in BlockIDs : eeOrigin[id] # None =>
       eeOrigin[id] # <<>> /\ Last(eeOrigin[id]).id = id /\ Len(eeOrigin[id]) <= id
  /\ headOrigin \in BlockIDs \cup {Nil}
  /\ headOrigin # Nil => eeOrigin[headOrigin] # None

LoopTypes ==
  /\ l1Head \in Headers /\ l1Current \in Headers
  /\ lastInserted \in 0..MaxBlocks \cup {Nil}
  /\ tracker \in [triggered : BOOLEAN, finished : BOOLEAN, outOfSync : BOOLEAN,
                  last : Blocks \cup {None}]
  /\ tracker.triggered => tracker.last # None
  /\ pc \in {"idle", "process", "read", "iter", "built"}
  /\ iter \in [cur : 0..MaxL1Height, end : Headers, batch : 0..MaxL1Height,
               events : Seq(Proposal)]
  /\ pc \in {"idle", "process"} => iter.events = <<>>
  /\ pc = "built" => iter.events # <<>> /\ eeOrigin[Event.id] # None
  /\ faults \in 0..MaxFaults

Types == L1Types /\ EngineTypes /\ LoopTypes

(* Proposals of L1 are numbered, in the order of their L1 blocks            *)
ChainOK ==
  /\ \A k \in 1..Len(l1) : l1[k] <= forks
  /\ \A n \in 1..Len(derived) :
       /\ derived[n].id = n /\ derived[n].l1 # <<>> /\ OnL1(derived[n].l1)
       /\ \A m \in 1..n : Len(derived[m].l1) <= Len(derived[n].l1)

HeadersHeld == Held(l1Head) /\ Held(l1Current) /\ Held(iter.end)

EventsOrdered ==
  \A i, j \in 1..Len(iter.events) : i < j =>
    iter.events[i].id < iter.events[j].id /\ IsPrefix(iter.events[i].l1, iter.events[j].l1)

ProposalsSound == \A p \in Inside \cup Events : Sound(p)
ReadLater == \A p \in Inside, e \in Events : Precedes(p, e)
Recorded == \A p \in Inside : eeOrigin[p.id] = None => Certain(p)

IInv ==
  /\ Types /\ ChainOK /\ HeadersHeld /\ EventsOrdered
  /\ ProposalsSound /\ ReadLater /\ Recorded

-----------------------------------------------------------------------------
(* Sequences, and greatest and least elements *)

(* A prefix agrees with the longer sequence where it is defined.            *)
LEMMA PrefixIs ==
  ASSUME NEW S, NEW s \in Seq(S), NEW t \in Seq(S)
  PROVE  IsPrefix(s, t) <=> Len(s) <= Len(t) /\ \A k \in 1..Len(s) : s[k] = t[k]
<1> SUFFICES ASSUME Len(s) <= Len(t)
             PROVE  SubSeq(s, 1, Len(s)) = SubSeq(t, 1, Len(s))
                      <=> \A k \in 1..Len(s) : s[k] = t[k]
  BY DEF IsPrefix
<1>1. Len(s) \in Nat /\ Len(t) \in Nat
  OBVIOUS
<1>2. SubSeq(s, 1, Len(s)) = s
  BY SubSeqFull
<1>3. /\ SubSeq(t, 1, Len(s)) \in Seq(S)
      /\ Len(SubSeq(t, 1, Len(s))) = Len(s)
      /\ \A k \in 1..Len(s) : SubSeq(t, 1, Len(s))[k] = t[k]
  <2>1. \A k \in 1..Len(s) : t[k] \in S
    BY <1>1
  <2>. QED  BY <1>1, <2>1
<1>. QED  BY <1>1, <1>2, <1>3, SeqEqual

(* A sequence is one of whatever set its elements are in.                   *)
LEMMA SeqOfElements ==
  ASSUME NEW S, NEW s \in Seq(S), NEW T, \A k \in 1..Len(s) : s[k] \in T
  PROVE  s \in Seq(T)
<1>1. s \in [1..Len(s) -> T] /\ Len(s) \in Nat
  OBVIOUS
<1>. QED  BY <1>1, SeqDef

(* A function on 1..n is a sequence of length n.                            *)
LEMMA FunctionIsSeq ==
  ASSUME NEW S, NEW n \in Nat, NEW f \in [1..n -> S]
  PROVE  f \in Seq(S) /\ Len(f) = n
<1>1. f \in Seq(S)
  BY SeqDef
<1>. QED  BY <1>1, LenProperties

(* The prefixes of one sequence are prefixes of each other.                 *)
LEMMA PrefixesOfOne ==
  ASSUME NEW S, NEW s \in Seq(S), NEW t \in Seq(S), NEW u \in Seq(S),
         IsPrefix(s, u), IsPrefix(t, u), Len(s) <= Len(t)
  PROVE  IsPrefix(s, t) /\ (Len(s) = Len(t) => s = t)
<1>1. Len(s) \in Nat /\ Len(t) \in Nat /\ Len(u) \in Nat
  OBVIOUS
<1>2. /\ Len(s) <= Len(u) /\ \A k \in 1..Len(s) : s[k] = u[k]
      /\ Len(t) <= Len(u) /\ \A k \in 1..Len(t) : t[k] = u[k]
  BY PrefixIs
<1>3. \A k \in 1..Len(s) : s[k] = t[k]
  BY <1>1, <1>2
<1>4. IsPrefix(s, t)
  BY <1>3, PrefixIs
<1>. QED  BY <1>3, <1>4, SeqEqual

(* A prefix of a prefix.                                                    *)
LEMMA PrefixTransitive ==
  ASSUME NEW S, NEW s \in Seq(S), NEW t \in Seq(S), NEW u \in Seq(S),
         IsPrefix(s, t), IsPrefix(t, u)
  PROVE  IsPrefix(s, u)
<1>1. Len(s) \in Nat /\ Len(t) \in Nat /\ Len(u) \in Nat
  OBVIOUS
<1>2. /\ Len(s) <= Len(t) /\ \A k \in 1..Len(s) : s[k] = t[k]
      /\ Len(t) <= Len(u) /\ \A k \in 1..Len(t) : t[k] = u[k]
  BY PrefixIs
<1>. QED  BY <1>1, <1>2, PrefixIs

(* The first n elements.                                                    *)
LEMMA FirstElements ==
  ASSUME NEW S, NEW s \in Seq(S), NEW n \in 0..Len(s)
  PROVE  /\ SubSeq(s, 1, n) \in Seq(S) /\ Len(SubSeq(s, 1, n)) = n
         /\ \A k \in 1..n : SubSeq(s, 1, n)[k] = s[k]
         /\ IsPrefix(SubSeq(s, 1, n), s)
<1>1. Len(s) \in Nat /\ n \in Nat /\ \A k \in 1..Len(s) : s[k] \in S
  OBVIOUS
<1>2. /\ SubSeq(s, 1, n) \in Seq(S) /\ Len(SubSeq(s, 1, n)) = n
      /\ \A k \in 1..n : SubSeq(s, 1, n)[k] = s[k]
  BY <1>1
<1>3. ASSUME NEW r \in Seq(S), Len(r) = n, \A k \in 1..n : r[k] = s[k]
      PROVE  IsPrefix(r, s)
  BY <1>1, <1>3, PrefixIs
<1>. QED  BY <1>2, <1>3

(* A bounded set of naturals has a greatest element, and a least one.       *)
LEMMA GreatestExists ==
  ASSUME NEW n \in Nat, NEW S \in SUBSET (0..n), S # {}
  PROVE  Max(S) \in S /\ \A y \in S : y <= Max(S)
<1> DEFINE Above == {k..n : k \in S}
<1>1. IsWellFoundedOn(StrictSubsetOrdering(0..n), SUBSET (0..n))
  <2>1. IsFiniteSet(0..n)
    BY FS_Interval
  <2>. QED  BY ONLY <2>1, FS_FiniteSubsetsOfFinite,
       FS_StrictSubsetOrderingWellFounded, Zenon
<1>2. Above \in SUBSET (SUBSET (0..n)) /\ Above # {}
  <2>1. \A k \in S : k..n \in SUBSET (0..n)
    OBVIOUS
  <2>. QED  BY <2>1, Zenon
<1>3. PICK a \in Above : \A b \in Above : <<b, a>> \notin StrictSubsetOrdering(0..n)
  BY <1>1, <1>2, WFMin
<1>4. PICK x \in S : a = x..n
  OBVIOUS
<1>5. \A y \in S : y <= x
  <2> SUFFICES ASSUME NEW y \in S, y > x  PROVE FALSE
    OBVIOUS
  <2>1. y..n \in Above /\ y..n \subseteq x..n /\ y..n # x..n
    OBVIOUS
  <2>. QED  BY <2>1, <1>2, <1>3, <1>4 DEF StrictSubsetOrdering
<1>6. x \in S /\ \A y \in S : x >= y
  BY <1>5
<1>. QED  BY <1>6 DEF Max

(* The same for the least element.                                          *)
LEMMA LeastExists ==
  ASSUME NEW n \in Nat, NEW S \in SUBSET (0..n), S # {}
  PROVE  Min(S) \in S /\ \A y \in S : Min(S) <= y
<1> DEFINE Mirror == {n - x : x \in S}
<1>1. Mirror \in SUBSET (0..n) /\ Mirror # {}
  <2>1. \A x \in S : n - x \in 0..n
    OBVIOUS
  <2>. QED  BY <2>1
<1>2. Max(Mirror) \in Mirror /\ \A y \in Mirror : y <= Max(Mirror)
  <2> HIDE DEF Mirror
  <2>. QED  BY <1>1, GreatestExists
<1>3. PICK x \in S : Max(Mirror) = n - x
  BY <1>2
<1>4. \A y \in S : x <= y
  <2>1. \A y \in S : n - y <= n - x
    BY <1>2, <1>3
  <2>2. \A y \in S : y \in Nat /\ x \in Nat
    OBVIOUS
  <2>. QED  BY <2>1, <2>2
<1>. QED  BY <1>4 DEF Min

-----------------------------------------------------------------------------
(* The L1 chain *)

(* What a header is.                                                        *)
LEMMA HeaderFacts ==
  ASSUME NEW hdr \in Headers
  PROVE  /\ hdr \in Seq(Int) /\ Len(hdr) \in 0..MaxL1Height
         /\ \A k \in 1..Len(hdr) : hdr[k] \in 0..MaxReorgs
BY DriverAssumption DEF Headers, DriverAssumption

(* L1 has the blocks of its prefixes, and they are held.                    *)
LEMMA OnL1Held ==
  ASSUME Types, ChainOK, NEW hdr \in Seq(Int), OnL1(hdr)
  PROVE  Held(hdr)
<1>1. /\ l1 \in Seq(Int) /\ Len(l1) \in 0..MaxL1Height
      /\ \A k \in 1..Len(l1) : l1[k] \in 0..MaxReorgs /\ l1[k] <= forks
  BY HeaderFacts DEF Types, L1Types, ChainOK
<1>2. Len(hdr) <= Len(l1) /\ \A k \in 1..Len(hdr) : hdr[k] = l1[k]
  BY <1>1, PrefixIs DEF OnL1
<1>3. Len(hdr) \in Nat /\ \A k \in 1..Len(hdr) : hdr[k] \in 0..MaxReorgs /\ hdr[k] <= forks
  BY <1>1, <1>2
<1>4. hdr \in Seq(0..MaxReorgs)
  BY <1>3, SeqOfElements
<1>. QED  BY <1>1, <1>2, <1>3, <1>4, DriverAssumption DEF Held, Headers, DriverAssumption

(* The header of a height of L1.                                            *)
LEMMA HeaderHeld ==
  ASSUME Types, ChainOK, NEW h \in 0..Len(l1)
  PROVE  /\ Header(h) \in Headers /\ Held(Header(h)) /\ OnL1(Header(h))
         /\ Len(Header(h)) = h /\ \A k \in 1..h : Header(h)[k] = l1[k]
<1>1. l1 \in Seq(Int)
  BY HeaderFacts DEF Types, L1Types
<1>2. /\ Header(h) \in Seq(Int) /\ OnL1(Header(h)) /\ Len(Header(h)) = h
      /\ \A k \in 1..h : Header(h)[k] = l1[k]
  BY <1>1, FirstElements DEF Header, OnL1
<1>3. Held(Header(h))
  BY <1>2, OnL1Held
<1>. QED  BY <1>2, <1>3 DEF Held

(* The proposals on L1 are sound.                                           *)
LEMMA DerivedFacts ==
  ASSUME Types, ChainOK
  PROVE  /\ Len(derived) \in 0..MaxBlocks /\ derived \in Seq(Proposal)
         /\ \A n \in 1..Len(derived) :
              /\ derived[n] \in Proposal /\ derived[n].l1 \in Seq(Int)
              /\ Len(derived[n].l1) \in 1..Len(l1) /\ Sound(derived[n])
<1>1. /\ derived \in Seq(Proposal) /\ Len(derived) <= MaxBlocks
      /\ l1 \in Headers /\ MaxBlocks \in Nat
  BY DriverAssumption DEF Types, L1Types, Blocks, DriverAssumption
<1>2. Len(derived) \in 0..MaxBlocks
  BY <1>1
<1>3. ASSUME NEW n \in 1..Len(derived)
      PROVE  /\ derived[n] \in Proposal /\ derived[n].l1 \in Seq(Int)
             /\ Len(derived[n].l1) \in 1..Len(l1) /\ Sound(derived[n])
  <2>1. derived[n] \in Proposal
    BY <1>1, ElementOfSeq
  <2>2. derived[n].l1 \in Headers /\ derived[n].l1 # <<>> /\ OnL1(derived[n].l1)
        /\ derived[n].id = n
    BY <2>1 DEF ChainOK, Proposal
  <2>3. derived[n].l1 \in Seq(Int) /\ l1 \in Seq(Int)
    BY <1>1, <2>2, HeaderFacts
  <2>4. Len(derived[n].l1) \in 1..Len(l1)
    <3>1. Len(derived[n].l1) <= Len(l1)
      BY <2>2 DEF OnL1, IsPrefix
    <3>2. Len(derived[n].l1) \in Nat /\ Len(derived[n].l1) # 0 /\ Len(l1) \in Nat
      BY <2>2, <2>3
    <3>. QED  BY <3>1, <3>2
  <2>5. Held(derived[n].l1)
    BY <2>2, <2>3, OnL1Held
  <2>. QED  BY <1>1, <2>1, <2>2, <2>3, <2>4, <2>5 DEF Sound
<1>. QED  BY <1>1, <1>2, <1>3

(* Before counts, because the proposals are in the order of their L1 blocks. *)
LEMMA BeforeIs ==
  ASSUME Types, ChainOK, NEW h \in Int
  PROVE  /\ Before(h) \in 0..Len(derived)
         /\ \A n \in 1..Len(derived) : n <= Before(h) <=> Len(derived[n].l1) < h
<1> DEFINE S == {n \in 0..Len(derived) : n = 0 \/ Len(derived[n].l1) < h}
<1>1. Len(derived) \in Nat /\ \A n \in 1..Len(derived) : Len(derived[n].l1) \in Nat
  BY DerivedFacts
<1>2. S \in SUBSET (0..Len(derived)) /\ 0 \in S
  BY <1>1
<1>3. Max(S) \in S /\ \A y \in S : y <= Max(S)
  <2> HIDE DEF S
  <2>. QED  BY <1>1, <1>2, GreatestExists
<1>4. Before(h) = Max(S)
  BY DEF Before
<1>5. Before(h) \in S /\ \A y \in S : y <= Before(h)
  BY <1>3, <1>4
<1>6. ASSUME NEW n \in 1..Len(derived)
      PROVE  n <= Before(h) <=> Len(derived[n].l1) < h
  <2>1. CASE Len(derived[n].l1) < h
    BY <1>1, <1>5, <2>1
  <2>2. CASE n <= Before(h)
    <3>1. Before(h) \in 1..Len(derived) /\ Len(derived[Before(h)].l1) < h
      BY <1>1, <1>5, <2>2
    <3>2. Len(derived[n].l1) <= Len(derived[Before(h)].l1)
      BY <3>1, <2>2 DEF ChainOK
    <3>. QED  BY <1>1, <3>1, <3>2, <2>2
  <2>. QED  BY <2>1, <2>2
<1>. QED  BY <1>5, <1>6

(* The types of the L1 side.                                                *)
LEMMA L1Facts ==
  ASSUME Types, ChainOK
  PROVE  /\ MaxL1Height \in Nat /\ MaxBlocks \in Nat /\ MaxReorgs \in Nat
         /\ l1 \in Headers /\ l1 \in Seq(Int) /\ Len(l1) \in 0..MaxL1Height
         /\ \A k \in 1..Len(l1) : l1[k] \in 0..MaxReorgs /\ l1[k] <= forks
         /\ forks \in 0..MaxReorgs /\ forks \in Nat
         /\ verified \in 0..Len(derived) /\ verified \in Nat
<1>1. /\ MaxL1Height \in Nat /\ MaxBlocks \in Nat /\ MaxReorgs \in Nat
  BY DriverAssumption DEF DriverAssumption
<1>2. l1 \in Headers /\ forks \in 0..MaxReorgs /\ verified \in 0..Len(derived)
  BY DEF Types, L1Types
<1>3. l1 \in Seq(Int) /\ Len(l1) \in 0..MaxL1Height /\ \A k \in 1..Len(l1) : l1[k] \in 0..MaxReorgs
  BY <1>2, HeaderFacts
<1>4. \A k \in 1..Len(l1) : l1[k] <= forks
  BY DEF ChainOK
<1>5. verified \in Nat /\ forks \in Nat
  <2>1. Len(derived) \in Nat
    BY DerivedFacts
  <2>. QED  BY <1>1, <1>2, <2>1
<1>. QED  BY <1>1, <1>2, <1>3, <1>4, <1>5

(* What one more L1 block does, on top of height m of a chain with C        *)
(* proposals up to there.                                                   *)
NewBlock(m, C) ==
  /\ m \in 0..Len(l1) /\ m < MaxL1Height
  /\ \/ forks' = forks /\ m = Len(l1)
     \/ forks' = forks + 1 /\ forks < MaxReorgs
  /\ l1' \in Headers /\ Len(l1') = m + 1 /\ l1'[m + 1] = forks'
  /\ \A k \in 1..m : l1'[k] = l1[k]
  /\ C \in 0..Len(derived)
  /\ \A k \in 1..Len(derived) : k <= C <=> Len(derived[k].l1) < m + 1
  /\ derived' \in Seq(Proposal) /\ Len(derived') \in C..MaxBlocks
  /\ \A k \in 1..C : derived'[k] = derived[k]
  /\ \A k \in C + 1..Len(derived') : derived'[k] = [id |-> k, l1 |-> l1']
  /\ verified' = verified /\ verified <= C

(* What Mine and Reorg do is that.                                          *)
LEMMA BlockAppended ==
  ASSUME Types, ChainOK, NEW m \in Nat, m <= Len(l1), m < MaxL1Height,
         \/ forks' = forks /\ m = Len(l1)
         \/ forks' = forks + 1 /\ forks < MaxReorgs,
         l1' = Append(Header(m), forks'),
         NEW C \in Nat, C = Before(m + 1), NEW n \in Nat, C + n <= MaxBlocks,
         derived' = DerivedBlock(C) \o ProposedAt(l1', C, n),
         verified' = verified, verified <= C
  PROVE  NewBlock(m, C)
<1>1. /\ MaxL1Height \in Nat /\ MaxBlocks \in Nat /\ MaxReorgs \in Nat
      /\ forks \in 0..MaxReorgs /\ forks' \in 0..MaxReorgs /\ forks <= forks'
      /\ forks \in Nat /\ forks' \in Nat /\ m \in Nat /\ m < MaxL1Height /\ m <= Len(l1)
      /\ verified \in Nat /\ verified \in 0..Len(derived)
  <2>1. /\ MaxL1Height \in Nat /\ MaxBlocks \in Nat /\ MaxReorgs \in Nat
        /\ forks \in 0..MaxReorgs /\ forks \in Nat
        /\ verified \in Nat /\ verified \in 0..Len(derived)
    BY L1Facts
  <2>2. forks' = forks \/ (forks' = forks + 1 /\ forks < MaxReorgs)
    OBVIOUS
  <2>3. forks' \in 0..MaxReorgs /\ forks <= forks' /\ forks' \in Nat
    BY ONLY <2>1, <2>2
  <2>. QED  BY <2>1, <2>3
<1>2. /\ l1 \in Headers /\ l1 \in Seq(Int) /\ Len(l1) \in Nat
      /\ \A k \in 1..Len(l1) : l1[k] \in 0..MaxReorgs /\ l1[k] <= forks
  BY L1Facts
<1>3. /\ Header(m) \in Seq(0..MaxReorgs) /\ Len(Header(m)) = m
      /\ \A k \in 1..m : Header(m)[k] = l1[k]
  <2>1. m \in 0..Len(l1)
    BY <1>1, <1>2
  <2>2. Header(m) \in Headers /\ Len(Header(m)) = m /\ \A k \in 1..m : Header(m)[k] = l1[k]
    BY <2>1, HeaderHeld
  <2>. QED  BY <2>2 DEF Headers
<1>4. /\ l1' \in Seq(0..MaxReorgs) /\ Len(l1') = m + 1 /\ l1'[m + 1] = forks'
      /\ \A k \in 1..m : l1'[k] = l1[k]
  <2>1. /\ l1' \in Seq(0..MaxReorgs) /\ Len(l1') = Len(Header(m)) + 1
        /\ \A k \in 1..Len(Header(m)) : l1'[k] = Header(m)[k]
        /\ l1'[Len(Header(m)) + 1] = forks'
    <3>1. forks' \in 0..MaxReorgs /\ Header(m) \in Seq(0..MaxReorgs)
          /\ l1' = Append(Header(m), forks')
      BY <1>1, <1>3
    <3>. QED  BY ONLY <3>1, AppendProperties
  <2>. QED  BY ONLY <1>3, <2>1
<1>5. l1' \in Headers /\ l1' \in Seq(Int) /\ l1' # <<>>
  <2>1. m + 1 <= MaxL1Height /\ m + 1 # 0
    BY <1>1
  <2>2. l1' \in Headers
    BY <1>4, <2>1 DEF Headers
  <2>. QED  BY <1>4, <2>1, <2>2, HeaderFacts, EmptySeq
<1>6. /\ C \in 0..Len(derived) /\ Len(derived) \in 0..MaxBlocks
      /\ \A k \in 1..Len(derived) : k <= C <=> Len(derived[k].l1) < m + 1
      /\ \A k \in 1..Len(derived) : Len(derived[k].l1) \in Nat
  <2>1. PICK h \in Int : h = m + 1
    OBVIOUS
  <2>2. C \in 0..Len(derived) /\ \A k \in 1..Len(derived) : k <= C <=> Len(derived[k].l1) < h
    <3>1. C = Before(h)
      BY <2>1
    <3>2. /\ Before(h) \in 0..Len(derived)
          /\ \A k \in 1..Len(derived) : k <= Before(h) <=> Len(derived[k].l1) < h
      BY BeforeIs
    <3>. QED  BY ONLY <3>1, <3>2
  <2>3. /\ Len(derived) \in 0..MaxBlocks
        /\ \A k \in 1..Len(derived) : Len(derived[k].l1) \in 1..Len(l1)
        /\ Len(l1) \in Nat
    BY <1>2, DerivedFacts
  <2>4. \A k \in 1..Len(derived) : Len(derived[k].l1) \in Nat
    BY ONLY <2>3
  <2>. QED  BY ONLY <2>1, <2>2, <2>3, <2>4
<1>7. /\ DerivedBlock(C) \in Seq(Proposal) /\ Len(DerivedBlock(C)) = C
      /\ \A k \in 1..C : DerivedBlock(C)[k] = derived[k]
  BY <1>6, DerivedFacts, FirstElements DEF DerivedBlock
<1>8. /\ ProposedAt(l1', C, n) \in Seq(Proposal)
      /\ Len(ProposedAt(l1', C, n)) = n
      /\ \A k \in 1..n : ProposedAt(l1', C, n)[k] = [id |-> C + k, l1 |-> l1']
  <2>1. ASSUME NEW k \in 1..n
        PROVE  [id |-> C + k, l1 |-> l1'] \in Proposal
    <3>1. C + k \in BlockIDs
      <4>1. C \in Nat /\ n \in Nat /\ C + n <= MaxBlocks /\ MaxBlocks \in Nat
        BY <1>1
      <4>. QED  BY ONLY <2>1, <4>1 DEF BlockIDs
    <3>. QED  BY ONLY <1>5, <3>1 DEF Proposal
  <2>2. /\ DOMAIN ProposedAt(l1', C, n) = 1..n
        /\ \A k \in 1..n : ProposedAt(l1', C, n)[k] = [id |-> C + k, l1 |-> l1']
    BY DEF ProposedAt
  <2>3. ProposedAt(l1', C, n) \in [1..n -> Proposal]
    BY <2>1 DEF ProposedAt
  <2>. QED  BY <2>2, <2>3, FunctionIsSeq
<1>9. /\ derived' \in Seq(Proposal) /\ Len(derived') = C + n
      /\ \A k \in 1..C : derived'[k] = derived[k]
      /\ \A k \in C + 1..C + n : derived'[k] = [id |-> k, l1 |-> l1']
  <2>1. C \in Nat /\ n \in Nat /\ derived' = DerivedBlock(C) \o ProposedAt(l1', C, n)
    OBVIOUS
  <2>2. /\ derived' \in Seq(Proposal) /\ Len(derived') = C + n
        /\ \A k \in 1..C + n : derived'[k] = IF k <= C THEN DerivedBlock(C)[k]
                                             ELSE ProposedAt(l1', C, n)[k - C]
    <3>1. PICK s \in Seq(Proposal), t \in Seq(Proposal) :
            s = DerivedBlock(C) /\ t = ProposedAt(l1', C, n)
      BY <1>7, <1>8
    <3>2. Len(s) = C /\ Len(t) = n /\ derived' = s \o t
      BY <1>7, <1>8, <2>1, <3>1
    <3>3. /\ s \o t \in Seq(Proposal) /\ Len(s \o t) = Len(s) + Len(t)
          /\ \A k \in 1..Len(s) + Len(t) : (s \o t)[k] = IF k <= Len(s) THEN s[k]
                                                        ELSE t[k - Len(s)]
      BY ConcatProperties
    <3>. QED  BY ONLY <3>1, <3>2, <3>3
  <2>3. ASSUME NEW k \in 1..C
        PROVE  derived'[k] = derived[k]
    <3>1. k \in 1..C + n /\ k <= C
      BY ONLY <2>1, <2>3
    <3>2. derived'[k] = DerivedBlock(C)[k]
      BY <2>2, <3>1
    <3>. QED  BY <1>7, <3>2
  <2>4. ASSUME NEW k \in C + 1..C + n
        PROVE  derived'[k] = [id |-> k, l1 |-> l1']
    <3>1. k \in 1..C + n /\ ~(k <= C) /\ k - C \in 1..n /\ C + (k - C) = k
      BY ONLY <2>1, <2>4
    <3>2. derived'[k] = ProposedAt(l1', C, n)[k - C]
      BY <2>2, <3>1
    <3>. QED  BY <1>8, <3>1, <3>2
  <2>. QED  BY <2>2, <2>3, <2>4
<1>10. Len(derived') \in C..MaxBlocks /\ m \in 0..Len(l1)
  BY <1>1, <1>2, <1>9
<1>. QED  BY <1>1, <1>4, <1>5, <1>6, <1>9, <1>10 DEF NewBlock

(* What was held stays held and nothing comes back to L1; what the chain    *)
(* keeps stays in its place.                                                *)
LEMMA NewBlockKeeps ==
  ASSUME Types, ChainOK, NEW m, NEW C, NewBlock(m, C)
  PROVE  /\ l1' \in Headers /\ derived' \in Blocks
         /\ forks' \in 0..MaxReorgs /\ verified' \in 0..Len(derived')
         /\ ChainOK'
         /\ \A hdr : Held(hdr) => Held(hdr)' /\ (OnL1(hdr)' => OnL1(hdr))
         /\ \A p : Sound(p) => Sound(p)'
         /\ \A p : p.id \in BlockIDs /\ Certain(p) => Certain(p)'
<1>1. /\ MaxL1Height \in Nat /\ MaxBlocks \in Nat /\ MaxReorgs \in Nat
      /\ forks \in 0..MaxReorgs /\ forks' \in 0..MaxReorgs /\ forks <= forks'
      /\ forks \in Nat /\ forks' \in Nat /\ m \in Nat /\ C \in Nat
      /\ verified \in Nat
      /\ (forks' = forks /\ m = Len(l1)) \/ forks' = forks + 1
  <2>1. /\ MaxL1Height \in Nat /\ MaxBlocks \in Nat /\ MaxReorgs \in Nat
        /\ forks \in 0..MaxReorgs /\ forks \in Nat /\ verified \in Nat
        /\ Len(l1) \in Nat /\ Len(derived) \in Nat
    BY L1Facts, DerivedFacts
  <2>2. /\ \/ forks' = forks /\ m = Len(l1)
           \/ forks' = forks + 1 /\ forks < MaxReorgs
        /\ m \in 0..Len(l1) /\ C \in 0..Len(derived)
    BY DEF NewBlock
  <2>. QED  BY ONLY <2>1, <2>2
<1>2. /\ l1 \in Headers /\ l1 \in Seq(Int) /\ Len(l1) \in Nat
      /\ \A k \in 1..Len(l1) : l1[k] \in 0..MaxReorgs /\ l1[k] <= forks
  BY L1Facts
<1>4. /\ Len(l1') = m + 1 /\ l1'[m + 1] = forks' /\ m <= Len(l1)
      /\ \A k \in 1..m : l1'[k] = l1[k]
  BY <1>2 DEF NewBlock
<1>5. l1' \in Headers /\ l1' \in Seq(Int) /\ l1' # <<>>
  BY <1>1, <1>4, HeaderFacts, EmptySeq DEF NewBlock
<1>6. /\ C \in 0..Len(derived) /\ Len(derived) \in 0..MaxBlocks
      /\ \A k \in 1..Len(derived) : k <= C <=> Len(derived[k].l1) < m + 1
      /\ \A k \in 1..Len(derived) : Len(derived[k].l1) \in Nat
  BY DerivedFacts DEF NewBlock
<1>9. /\ derived' \in Seq(Proposal) /\ Len(derived') \in C..MaxBlocks
      /\ \A k \in 1..C : derived'[k] = derived[k]
      /\ \A k \in C + 1..Len(derived') : derived'[k] = [id |-> k, l1 |-> l1']
      /\ verified' = verified /\ verified <= C
  BY DEF NewBlock
<1>10. ASSUME NEW hdr \in Seq(Int)
       PROVE  OnL1(hdr)' <=> Len(hdr) <= m + 1 /\ \A k \in 1..Len(hdr) : hdr[k] = l1'[k]
  <2>1. OnL1(hdr)' <=> IsPrefix(hdr, l1')
    BY DEF OnL1
  <2>2. Len(l1') = m + 1 /\ l1' \in Seq(Int)
    BY <1>4, <1>5
  <2>. QED  BY ONLY <1>10, <2>1, <2>2, PrefixIs
<1>11. ASSUME NEW hdr \in Seq(Int)
       PROVE  OnL1(hdr) <=> Len(hdr) <= Len(l1) /\ \A k \in 1..Len(hdr) : hdr[k] = l1[k]
  BY <1>2, PrefixIs DEF OnL1
<1>12. ASSUME NEW hdr \in Seq(Int), Len(hdr) <= m
       PROVE  OnL1(hdr)' <=> OnL1(hdr)
  <2>1. Len(hdr) \in Nat /\ m \in Nat /\ m <= Len(l1) /\ Len(l1) \in Nat
    BY <1>1, <1>2, <1>4, LenProperties
  <2>2. \A k \in 1..Len(hdr) : l1'[k] = l1[k]
    BY <1>4, <1>12, <2>1
  <2>. QED  BY <1>10, <1>11, <1>12, <2>1, <2>2
<1>13. ASSUME NEW hdr, Held(hdr)
       PROVE  /\ OnL1(hdr)' => OnL1(hdr)
              /\ Held(hdr)'
  <2>1. /\ hdr \in Seq(Int) /\ Len(hdr) \in Nat /\ hdr \in Headers
        /\ \A k \in 1..Len(hdr) : hdr[k] \in Int /\ hdr[k] <= forks
    BY <1>13, HeaderFacts DEF Held
  <2>2. ASSUME OnL1(hdr)'
        PROVE  OnL1(hdr)
    <3>1. CASE Len(hdr) <= m
      BY <1>12, <2>1, <2>2, <3>1
    <3>2. CASE Len(hdr) = m + 1
      <4>1. m + 1 \in 1..Len(hdr) /\ hdr # <<>> /\ Last(hdr) = hdr[m + 1]
        BY <1>1, <2>1, <3>2, EmptySeq DEF Last
      <4>2. hdr[m + 1] = forks' /\ forks' <= forks
        BY <1>4, <1>10, <2>1, <2>2, <4>1
      <4>3. Last(hdr) = forks
        BY <1>1, <4>1, <4>2
      <4>. QED  BY <1>13, <4>1, <4>3 DEF Held
    <3>3. Len(hdr) <= m + 1
      BY <1>10, <2>1, <2>2
    <3>. QED  BY <1>1, <2>1, <3>1, <3>2, <3>3
  <2>3. \A k \in 1..Len(hdr) : hdr[k] <= forks'
    BY <1>1, <2>1
  <2>4. ASSUME hdr # <<>>, Last(hdr) = forks'
        PROVE  OnL1(hdr)'
    <3>1. Len(hdr) \in 1..Len(hdr) /\ Last(hdr) = hdr[Len(hdr)]
      BY <2>1, <2>4, EmptySeq DEF Last
    <3>2. forks' = forks /\ m = Len(l1)
      BY <1>1, <2>1, <2>4, <3>1
    <3>3. OnL1(hdr)
      BY <1>13, <2>4, <3>2 DEF Held
    <3>. QED  BY <1>11, <1>12, <2>1, <3>2, <3>3
  <2>. QED  BY <2>1, <2>2, <2>3, <2>4 DEF Held
<1>14. ASSUME NEW k \in 1..C
       PROVE  k \in 1..Len(derived) /\ Len(derived[k].l1) <= m
  <2>1. k \in 1..Len(derived) /\ k <= C
    BY <1>6, <1>14
  <2>2. Len(derived[k].l1) < m + 1 /\ Len(derived[k].l1) \in Nat
    BY <1>6, <2>1
  <2>. QED  BY <1>1, <2>1, <2>2
<1>15. ASSUME NEW p, Sound(p)
       PROVE  Sound(p)'
  <2>1. /\ p \in Proposal /\ p.l1 # <<>> /\ Held(p.l1)
        /\ p.l1 \in Seq(Int) /\ Len(p.l1) \in Nat /\ p.id \in Nat /\ p.id >= 1
    <3>1. p \in Proposal /\ p.l1 # <<>> /\ Held(p.l1)
      BY <1>15 DEF Sound
    <3>2. p.l1 \in Headers /\ p.id \in 1..MaxBlocks
      BY <3>1 DEF Proposal, BlockIDs
    <3>. QED  BY <1>1, <3>1, <3>2, HeaderFacts
  <2>2. ASSUME OnL1(p.l1)'
        PROVE  p.id <= Len(derived') /\ derived'[p.id] = p
    <3>1. OnL1(p.l1) /\ p.id <= Len(derived) /\ derived[p.id] = p
      BY <1>13, <1>15, <2>1, <2>2 DEF Sound
    <3>2. CASE Len(p.l1) <= m
      <4>1. p.id \in 1..C
        BY <1>1, <1>6, <2>1, <3>1, <3>2
      <4>. QED  BY <1>1, <1>6, <1>9, <3>1, <4>1
    <3>3. CASE Len(p.l1) > m
      <4>1. Len(p.l1) = m + 1 /\ m + 1 <= Len(l1)
        <5>1. Len(p.l1) <= m + 1
          BY <1>10, <2>1, <2>2
        <5>2. Len(p.l1) <= Len(l1)
          BY <1>11, <2>1, <3>1
        <5>. QED  BY <1>1, <1>2, <2>1, <3>3, <5>1, <5>2
      <4>2. forks' = forks + 1
        BY <1>1, <1>2, <4>1
      <4>3. p.l1[m + 1] = forks' /\ p.l1[m + 1] <= forks
        BY <1>1, <1>4, <1>10, <2>1, <2>2, <4>1 DEF Held
      <4>. QED  BY <1>1, <4>2, <4>3
    <3>. QED  BY <1>1, <2>1, <3>2, <3>3
  <2>. QED  BY <1>13, <2>1, <2>2 DEF Sound
<1>16. ASSUME NEW p, p.id \in BlockIDs, Certain(p)
       PROVE  Certain(p)'
  <2>1. p.id \in 1..C
    BY <1>1, <1>6, <1>9, <1>16 DEF Certain, BlockIDs
  <2>. QED  BY <1>9, <1>16, <2>1 DEF Certain
<1>17. ChainOK'
  <2>1. \A k \in 1..Len(l1') : l1'[k] <= forks'
    <3> SUFFICES ASSUME NEW k \in 1..m + 1  PROVE l1'[k] <= forks'
      BY <1>4
    <3>1. CASE k = m + 1
      BY <1>1, <1>4, <3>1
    <3>2. CASE k \in 1..m
      <4>1. k \in 1..Len(l1) /\ l1'[k] = l1[k]
        BY <1>1, <1>2, <1>4, <3>2
      <4>2. l1[k] \in 0..MaxReorgs /\ l1[k] <= forks
        BY <1>2, <4>1
      <4>. QED  BY <1>1, <4>1, <4>2
    <3>. QED  BY <1>1, <3>1, <3>2
  <2>2. ASSUME NEW j \in 1..Len(derived')
        PROVE  /\ derived'[j].id = j /\ derived'[j].l1 # <<>> /\ IsPrefix(derived'[j].l1, l1')
               /\ \A i \in 1..j : Len(derived'[i].l1) <= Len(derived'[j].l1)
    <3>0. j \in Nat /\ Len(derived') \in Nat /\ j \in 1..Len(derived') /\ Len(derived) \in Nat
      BY <1>1, <1>6, <1>9, <2>2
    <3>1. CASE j <= C
      <4>1. j \in 1..C /\ \A i \in 1..j : i \in 1..C
        BY <1>1, <1>6, <1>9, <3>0, <3>1
      <4>2. /\ derived[j].id = j /\ derived[j].l1 # <<>> /\ OnL1(derived[j].l1)
            /\ \A i \in 1..j : Len(derived[i].l1) <= Len(derived[j].l1)
        BY <1>1, <1>6, <1>14, <3>0, <4>1 DEF ChainOK
      <4>3. derived[j].l1 \in Seq(Int)
        BY <1>14, <4>1, DerivedFacts
      <4>4. PICK hdr \in Seq(Int) : hdr = derived[j].l1
        BY <4>3
      <4>5. IsPrefix(hdr, l1')
        <5>1. OnL1(hdr)'
          BY <1>12, <1>14, <4>1, <4>2, <4>4
        <5>. QED  BY <5>1 DEF OnL1
      <4>. QED  BY <1>9, <3>0, <4>1, <4>2, <4>4, <4>5
    <3>2. CASE j > C
      <4>1. ASSUME NEW i \in C + 1..Len(derived')
            PROVE  derived'[i].id = i /\ derived'[i].l1 = l1'
        <5>1. derived'[i] = [id |-> i, l1 |-> l1']
          BY <1>9, <4>1
        <5>. QED  BY ONLY <5>1
      <4>2. /\ j \in Nat /\ Len(derived') \in Nat /\ j <= Len(derived') /\ j > C
            /\ m \in Nat /\ C \in Nat
        BY <1>1, <3>0, <3>2
      <4>6. j \in C + 1..Len(derived')
        BY ONLY <4>2
      <4>3. IsPrefix(l1', l1')
        <5>1. Len(l1') <= Len(l1')
          BY <1>1, <1>4
        <5>. QED  BY <1>5, <5>1, PrefixIs
      <4>4. ASSUME NEW i \in 1..j
            PROVE  Len(derived'[i].l1) <= m + 1
        <5>1. CASE i <= C
          <6>1. i \in 1..C
            BY <3>0, <4>2, <4>4, <5>1
          <6>2. Len(derived[i].l1) \in Nat /\ Len(derived[i].l1) <= m
            BY <1>6, <1>14, <6>1
          <6>. QED  BY <1>9, <4>2, <6>1, <6>2
        <5>2. CASE i > C
          <6>1. i \in C + 1..Len(derived')
            BY <3>0, <4>2, <4>4, <5>2
          <6>. QED  BY <1>4, <4>1, <4>2, <6>1
        <5>. QED  BY <3>0, <4>2, <4>4, <5>1, <5>2
      <4>5. derived'[j].id = j /\ derived'[j].l1 = l1'
        BY <4>1, <4>6
      <4>. QED  BY <1>4, <1>5, <4>3, <4>4, <4>5
    <3>. QED  BY <1>1, <3>0, <3>1, <3>2
  <2>. QED  BY <2>1, <2>2 DEF ChainOK, OnL1
<1>18. derived' \in Blocks /\ verified' \in 0..Len(derived')
  BY <1>1, <1>6, <1>9 DEF Blocks
<1>. QED  BY <1>1, <1>5, <1>13, <1>15, <1>16, <1>17, <1>18

-----------------------------------------------------------------------------
(* What a step of L1 keeps *)

L1Keeps ==
  /\ l1' \in Headers /\ derived' \in Blocks
  /\ forks' \in 0..MaxReorgs /\ dropped' \in 0..MaxBlocks
  /\ verified' \in 0..Len(derived')
  /\ ChainOK'
  /\ \A hdr : Held(hdr) => Held(hdr)' /\ (OnL1(hdr)' => OnL1(hdr))
  /\ \A p : Sound(p) => Sound(p)'
  /\ \A p : p.id \in BlockIDs /\ Certain(p) => Certain(p)'

(* An L1 block proposes no more than the bound leaves room for.             *)
LEMMA ProposalsFacts ==
  ASSUME NEW c \in 0..MaxBlocks, NEW n \in Proposals(c)
  PROVE  n \in Nat /\ c + n <= MaxBlocks
<1>1. MaxBlocks \in Nat /\ ProposalCounts \subseteq Nat
  BY DriverAssumption DEF DriverAssumption
<1>2. PICK k \in ProposalCounts : n = Min({k, MaxBlocks - c})
  BY DEF Proposals
<1>3. k \in Nat /\ MaxBlocks - c \in Nat /\ c \in Nat
  BY <1>1, <1>2
<1>4. {k, MaxBlocks - c} \in SUBSET (0..k + MaxBlocks) /\ {k, MaxBlocks - c} # {}
  BY <1>1, <1>3
<1>5. n \in {k, MaxBlocks - c} /\ \A y \in {k, MaxBlocks - c} : n <= y
  <2> DEFINE S == {k, MaxBlocks - c}
  <2>1. k + MaxBlocks \in Nat /\ S \in SUBSET (0..k + MaxBlocks) /\ S # {} /\ n = Min(S)
    BY <1>1, <1>2, <1>3, <1>4
  <2>2. Min(S) \in S /\ \A y \in S : Min(S) <= y
    <3> HIDE DEF S
    <3>. QED  BY ONLY <2>1, LeastExists
  <2>. QED  BY <2>1, <2>2
<1>6. n \in Nat /\ n <= MaxBlocks - c
  BY <1>3, <1>5
<1>. QED  BY <1>1, <1>3, <1>6

(* A new head on the chain.                                                 *)
LEMMA MineKeeps ==
  ASSUME Types, ChainOK, Mine
  PROVE  L1Keeps
<1>1. /\ MaxL1Height \in Nat /\ MaxBlocks \in Nat /\ l1 \in Seq(Int) /\ Len(l1) \in Nat
      /\ verified \in 0..Len(derived) /\ Len(derived) \in 0..MaxBlocks
      /\ derived \in Seq(Proposal) /\ dropped \in 0..MaxBlocks
      /\ \A k \in 1..Len(derived) : Len(derived[k].l1) \in 1..Len(l1)
  BY L1Facts, DerivedFacts DEF Types, L1Types
<1>2. PICK n \in Proposals(Len(derived)) :
        derived' = derived \o ProposedAt(l1', Len(derived), n)
  BY DEF Mine
<1>3. n \in Nat /\ Len(derived) + n <= MaxBlocks
  BY <1>1, ProposalsFacts
<1>4. Before(Len(l1) + 1) = Len(derived)
  <2>0. PICK h \in Int : h = Len(l1) + 1
    BY <1>1
  <2>1. /\ Before(h) \in 0..Len(derived)
        /\ \A k \in 1..Len(derived) : k <= Before(h) <=> Len(derived[k].l1) < h
    BY BeforeIs
  <2>2. \A k \in 1..Len(derived) : Len(derived[k].l1) < h
    BY <1>1, <2>0
  <2>3. Before(h) = Len(derived)
    BY <1>1, <2>1, <2>2
  <2>. QED  BY <2>0, <2>3
<1>5. Header(Len(l1)) = l1 /\ DerivedBlock(Len(derived)) = derived
  BY <1>1, SubSeqFull DEF Header, DerivedBlock
<1>6. NewBlock(Len(l1), Len(derived))
  <2>1. forks' = forks /\ verified' = verified /\ Len(l1) < MaxL1Height
        /\ l1' = Append(l1, forks)
    BY DEF Mine
  <2>2. verified <= Len(derived) /\ Len(derived) \in Nat /\ Len(l1) <= Len(l1)
    BY <1>1
  <2>. QED  BY <1>1, <1>2, <1>3, <1>4, <1>5, <2>1, <2>2, BlockAppended
<1>7. dropped' \in 0..MaxBlocks
  BY <1>1 DEF Mine
<1>. QED  BY <1>6, <1>7, NewBlockKeeps DEF L1Keeps

(* A head of another fork: nothing verified is abandoned.                   *)
LEMMA ReorgKeeps ==
  ASSUME Types, ChainOK, Reorg
  PROVE  L1Keeps
<1>1. /\ MaxL1Height \in Nat /\ MaxBlocks \in Nat /\ l1 \in Seq(Int)
      /\ Len(l1) \in 0..MaxL1Height
      /\ verified \in 0..Len(derived) /\ Len(derived) \in 0..MaxBlocks
      /\ dropped \in 0..MaxBlocks
      /\ \A k \in 1..Len(derived) : Len(derived[k].l1) \in 1..Len(l1)
  BY L1Facts, DerivedFacts DEF Types, L1Types
<1>2. PICK h \in Final + 1..Len(l1) :
        /\ l1' = Append(Header(h - 1), forks + 1)
        /\ \E n \in Proposals(Before(h)) :
             derived' = DerivedBlock(Before(h)) \o ProposedAt(l1', Before(h), n)
  BY DEF Reorg
<1>3. /\ Final \in Nat
      /\ verified # 0 => verified \in 1..Len(derived) /\ Len(derived[verified].l1) = Final
  BY <1>1 DEF Final, ProposedIn, Genesis
<1>4. h \in Nat /\ h - 1 \in Nat /\ h <= Len(l1) /\ Final < h
  BY <1>1, <1>2, <1>3
<1>5. /\ Before(h) \in 0..Len(derived) /\ Before(h) \in Nat
      /\ \A k \in 1..Len(derived) : k <= Before(h) <=> Len(derived[k].l1) < h
  BY <1>1, <1>4, BeforeIs
<1>6. verified <= Before(h)
  BY <1>1, <1>3, <1>4, <1>5
<1>7. PICK n \in Proposals(Before(h)) :
        derived' = DerivedBlock(Before(h)) \o ProposedAt(l1', Before(h), n)
  BY <1>2
<1>8. n \in Nat /\ Before(h) + n <= MaxBlocks
  <2>1. Before(h) \in 0..MaxBlocks
    BY <1>1, <1>5
  <2>. QED  BY <2>1, ProposalsFacts
<1>9. NewBlock(h - 1, Before(h))
  <2>1. forks' = forks + 1 /\ forks < MaxReorgs /\ verified' = verified
    BY DEF Reorg
  <2>2. h - 1 <= Len(l1) /\ h - 1 < MaxL1Height /\ (h - 1) + 1 = h
    BY <1>1, <1>4
  <2>3. l1' = Append(Header(h - 1), forks')
    BY <1>2, <2>1
  <2>4. Before(h) = Before((h - 1) + 1)
    BY <2>2
  <2>. QED  BY <1>4, <1>5, <1>6, <1>7, <1>8, <2>1, <2>2, <2>3, <2>4, BlockAppended
<1>10. dropped' \in 0..MaxBlocks
  <2> DEFINE S == {dropped, Len(derived)}
  <2>1. S \in SUBSET (0..MaxBlocks) /\ S # {} /\ dropped' = Max(S)
    BY <1>1 DEF Reorg
  <2>2. Max(S) \in S
    <3> HIDE DEF S
    <3>. QED  BY ONLY <1>1, <2>1, GreatestExists
  <2>. QED  BY <2>1, <2>2
<1>. QED  BY <1>9, <1>10, NewBlockKeeps DEF L1Keeps

(* The L1 chain does not change; verification may advance.                  *)
LEMMA ChainStays ==
  ASSUME Types, ChainOK, l1' = l1, derived' = derived, forks' = forks, dropped' = dropped,
         verified' \in 0..Len(derived), verified <= verified'
  PROVE  L1Keeps
<1>1. ASSUME NEW hdr  PROVE  OnL1(hdr)' <=> OnL1(hdr)
  BY DEF OnL1
<1>2. ASSUME NEW hdr  PROVE  Held(hdr)' <=> Held(hdr)
  BY <1>1 DEF Held
<1>3. ASSUME NEW p  PROVE  Sound(p)' <=> Sound(p)
  <2>1. OnL1(p.l1)' <=> OnL1(p.l1)
    BY DEF OnL1
  <2>2. Held(p.l1)' <=> Held(p.l1)
    BY <2>1 DEF Held
  <2>. QED  BY <2>1, <2>2 DEF Sound
<1>4. ASSUME NEW p, p.id \in BlockIDs, Certain(p)  PROVE  Certain(p)'
  <2>1. verified \in Int /\ verified' \in Int /\ p.id \in Int
    BY <1>4, L1Facts, DerivedFacts DEF BlockIDs
  <2>. QED  BY <1>4, <2>1 DEF Certain
<1>5. ChainOK'
  <2>1. \A n : OnL1(derived[n].l1)' <=> OnL1(derived[n].l1)
    BY DEF OnL1
  <2>. QED  BY <2>1 DEF ChainOK
<1>6. /\ l1' \in Headers /\ derived' \in Blocks /\ forks' \in 0..MaxReorgs
      /\ dropped' \in 0..MaxBlocks /\ verified' \in 0..Len(derived')
  BY DEF Types, L1Types
<1>. QED  BY <1>1, <1>2, <1>3, <1>4, <1>5, <1>6 DEF L1Keeps

(* Verification advances.                                                   *)
LEMMA VerifyKeeps ==
  ASSUME Types, ChainOK, Verify
  PROVE  L1Keeps
<1>1. verified \in 0..Len(derived) /\ Len(derived) \in Nat
  BY L1Facts, DerivedFacts
<1>2. /\ l1' = l1 /\ derived' = derived /\ forks' = forks /\ dropped' = dropped
      /\ verified' = verified + 1 /\ verified < Len(derived)
  BY DEF Verify
<1>3. verified' \in 0..Len(derived) /\ verified <= verified'
  BY <1>1, <1>2
<1>. QED  BY <1>2, <1>3, ChainStays

(* The steps of the driver and the engine leave L1 alone.                   *)
LEMMA SameChainKeeps ==
  ASSUME Types, ChainOK, UNCHANGED l1Vars
  PROVE  L1Keeps
<1>1. verified \in 0..Len(derived) /\ verified <= verified
  BY L1Facts
<1>. QED  BY <1>1, ChainStays DEF l1Vars

-----------------------------------------------------------------------------
(* The engine's blocks, and what a step does to the proposals in them *)

(* What an L2 block is.                                                     *)
LEMMA BlockFacts ==
  ASSUME NEW b \in Blocks
  PROVE  /\ b \in Seq(Proposal) /\ Len(b) \in 0..MaxBlocks /\ b # None
         /\ \A k \in 1..Len(b) : b[k] \in Proposal
<1>1. b \in Seq(Proposal) /\ Len(b) <= MaxBlocks /\ MaxBlocks \in Nat /\ Len(b) \in Nat
  BY LenProperties, DriverAssumption DEF Blocks, DriverAssumption
<1>2. \A k \in 1..Len(b) : b[k] \in Proposal
  BY <1>1, ElementOfSeq
<1>3. b # None
  <2>1. Proposal \subseteq [id : Nat, l1 : Seq(Nat)]
    <3>1. 0..MaxReorgs \subseteq Nat /\ BlockIDs \subseteq Nat
      BY DriverAssumption DEF DriverAssumption, BlockIDs
    <3>2. Seq(0..MaxReorgs) \subseteq Seq(Nat)
      <4> SUFFICES ASSUME NEW s \in Seq(0..MaxReorgs)  PROVE s \in Seq(Nat)
        OBVIOUS
      <4>1. \A k \in 1..Len(s) : s[k] \in Nat
        BY <3>1, ElementOfSeq
      <4>. QED  BY <4>1, SeqOfElements
    <3>. QED  BY <3>1, <3>2 DEF Proposal, Headers
  <2>2. \A k \in 1..Len(b) : b[k] \in [id : Nat, l1 : Seq(Nat)]
    BY <1>2, <2>1
  <2>3. b \in Seq([id : Nat, l1 : Seq(Nat)])
    BY <1>1, <2>2, SeqOfElements
  <2>. QED  BY <2>3, DriverAssumption DEF DriverAssumption
<1>. QED  BY <1>1, <1>2, <1>3

(* What a proposal is.                                                      *)
LEMMA ProposalFacts ==
  ASSUME NEW p \in Proposal
  PROVE  /\ p.id \in BlockIDs /\ p.id \in 1..MaxBlocks /\ p.id \in Nat /\ MaxBlocks \in Nat
         /\ p.l1 \in Headers /\ p.l1 \in Seq(Int) /\ Len(p.l1) \in 0..MaxL1Height
<1>1. p.id \in BlockIDs /\ p.l1 \in Headers /\ MaxBlocks \in Nat
  BY DriverAssumption DEF Proposal, DriverAssumption
<1>. QED  BY <1>1, HeaderFacts DEF BlockIDs

(* A proposal inside is one of a block the engine or the tracker holds.     *)
LEMMA InsideIs ==
  ASSUME NEW p
  PROVE  p \in Inside <=> \E b \in EngineBlocks : \E k \in 1..Len(b) : b[k] = p
BY DEF Inside

(* The blocks of the engine, the L1Origins and the tracker are inside.      *)
LEMMA BlocksInside ==
  ASSUME NEW b, b # None,
         \/ b = eeHead \/ b = eeTarget \/ b = tracker.last
         \/ \E id \in BlockIDs : b = eeOrigin[id],
         NEW k \in 1..Len(b)
  PROVE  b[k] \in Inside
BY InsideIs DEF EngineBlocks

(* The proposals a step leaves in the engine and in the batch need to be    *)
(* judged in the state before it only.                                      *)
LEMMA StepKeeps ==
  ASSUME IInv, L1Keeps,
         \A p \in Inside' \cup Events' : Sound(p),
         \A p \in Inside', e \in Events' : Precedes(p, e),
         \A p \in Inside' : eeOrigin'[p.id] = None => Certain(p)
  PROVE  ProposalsSound' /\ ReadLater' /\ Recorded'
<1>1. ProposalsSound'
  <2>1. \A p \in Inside' \cup Events' : Sound(p)'
    BY DEF L1Keeps
  <2>. QED  BY <2>1 DEF ProposalsSound
<1>2. ReadLater'
  <2>1. ASSUME NEW p \in Inside', NEW e \in Events'  PROVE Precedes(p, e)'
    <3>1. Held(p.l1) /\ Precedes(p, e)
      BY <2>1 DEF Sound
    <3>2. PICK hdr : hdr = p.l1
      OBVIOUS
    <3>3. OnL1(hdr)' => OnL1(hdr)
      BY <3>1, <3>2 DEF L1Keeps
    <3>. QED  BY <3>1, <3>2, <3>3 DEF Precedes
  <2>. QED  BY <2>1 DEF ReadLater
<1>3. Recorded'
  <2>1. ASSUME NEW p \in Inside', eeOrigin'[p.id] = None  PROVE Certain(p)'
    <3>1. p.id \in BlockIDs /\ Certain(p)
      BY <2>1, ProposalFacts DEF Sound
    <3>. QED  BY <3>1 DEF L1Keeps
  <2>. QED  BY <2>1 DEF Recorded
<1>. QED  BY <1>1, <1>2, <1>3

(* Most steps bring nothing new to the engine, and no new event.            *)
LEMMA NothingNew ==
  ASSUME IInv, L1Keeps, Inside' \subseteq Inside, Events' \subseteq Events,
         eeOrigin' = eeOrigin
  PROVE  ProposalsSound' /\ ReadLater' /\ Recorded'
<1>1. \A p \in Inside' \cup Events' : Sound(p)
  BY DEF IInv, ProposalsSound
<1>2. \A p \in Inside', e \in Events' : Precedes(p, e)
  BY DEF IInv, ReadLater
<1>3. \A p \in Inside' : eeOrigin'[p.id] = None => Certain(p)
  BY DEF IInv, Recorded
<1>. QED  BY <1>1, <1>2, <1>3, StepKeeps

(* Blocks that go away bring no proposal.                                   *)
LEMMA FewerBlocks ==
  ASSUME EngineBlocks' \subseteq EngineBlocks
  PROVE  Inside' \subseteq Inside
BY DEF Inside

(* A header once held is held for ever.                                     *)
LEMMA HeldStays ==
  ASSUME L1Keeps, NEW hdr, Held(hdr)
  PROVE  Held(hdr)'
BY DEF L1Keeps

(* The event the loop is at.                                                *)
LEMMA EventFacts ==
  ASSUME IInv, iter.events # <<>>
  PROVE  /\ Event \in Events /\ Event \in Proposal /\ Sound(Event) /\ Event = iter.events[1]
         /\ Len(iter.events) \in Nat \ {0} /\ iter.events \in Seq(Proposal)
<1>1. iter.events \in Seq(Proposal)
  BY DEF IInv, Types, LoopTypes
<1>2. Len(iter.events) \in Nat \ {0} /\ Event = iter.events[1]
  BY <1>1, EmptySeq DEF Event
<1>3. Event \in Events
  BY <1>2 DEF Events
<1>. QED  BY <1>1, <1>2, <1>3 DEF IInv, ProposalsSound, Sound

(* The cursors after a step need to be held in the state before it only.    *)
LEMMA HeadersKept ==
  ASSUME L1Keeps, NEW a, NEW b, NEW c, Held(a), Held(b), Held(c),
         l1Head' = a, l1Current' = b, iter'.end = c
  PROVE  HeadersHeld'
<1>1. Held(a)' /\ Held(b)' /\ Held(c)'
  BY HeldStays
<1>. QED  BY <1>1 DEF HeadersHeld

(* The cursors that a step leaves alone.                                    *)
LEMMA HeadersStay ==
  ASSUME IInv, L1Keeps, UNCHANGED <<l1Head, l1Current>>, iter'.end = iter.end
  PROVE  HeadersHeld'
<1>1. PICK a, b, c : a = l1Head /\ b = l1Current /\ c = iter.end
  OBVIOUS
<1>2. Held(a) /\ Held(b) /\ Held(c)
  BY <1>1 DEF IInv, HeadersHeld
<1>. QED  BY <1>1, <1>2, HeadersKept

(* The types of L1 after a step.                                            *)
LEMMA L1TypesKept ==
  ASSUME L1Keeps
  PROVE  L1Types'
BY DEF L1Keeps, L1Types

-----------------------------------------------------------------------------
(* Each step keeps the invariant *)

(* A step that leaves the engine and the tracker alone.                     *)
LEMMA SameEngine ==
  ASSUME UNCHANGED <<eeVars, tracker>>
  PROVE  Inside' = Inside
<1>1. EngineBlocks' = EngineBlocks
  BY DEF EngineBlocks, eeVars
<1>. QED  BY <1>1 DEF Inside

(* Mine, Reorg and Verify leave the engine and the driver alone.            *)
LEMMA L1Step ==
  ASSUME IInv, L1Keeps, UNCHANGED <<eeVars, driverVars, faults>>
  PROVE  IInv'
<1>1. Types'
  <2>1. EngineTypes' /\ LoopTypes'
    BY DEF IInv, Types, EngineTypes, LoopTypes, eeVars, driverVars, Event
  <2>. QED  BY <2>1, L1TypesKept DEF Types
<1>2. EventsOrdered' /\ Events' = Events
  BY DEF IInv, EventsOrdered, driverVars, Events
<1>3. Inside' = Inside /\ eeOrigin' = eeOrigin
  BY SameEngine DEF driverVars, eeVars
<1>4. ProposalsSound' /\ ReadLater' /\ Recorded'
  BY <1>2, <1>3, NothingNew
<1>5. HeadersHeld'
  BY HeadersStay DEF driverVars
<1>. QED  BY <1>1, <1>2, <1>4, <1>5 DEF IInv, L1Keeps

(* The head the engine syncs to was its target.                             *)
LEMMA EngineSyncedKeeps ==
  ASSUME IInv, L1Keeps, EngineSynced
  PROVE  IInv'
<1>1. Types'
  <2>1. EngineTypes' /\ LoopTypes'
    BY DEF IInv, Types, EngineTypes, LoopTypes, driverVars, Event, EngineSynced
  <2>. QED  BY <2>1, L1TypesKept DEF Types
<1>2. EventsOrdered' /\ Events' = Events
  BY DEF IInv, EventsOrdered, driverVars, Events, EngineSynced
<1>3. Inside' \subseteq Inside /\ eeOrigin' = eeOrigin
  BY FewerBlocks DEF driverVars, EngineSynced, EngineBlocks
<1>4. ProposalsSound' /\ ReadLater' /\ Recorded'
  BY <1>2, <1>3, NothingNew
<1>5. HeadersHeld'
  BY HeadersStay DEF driverVars, EngineSynced
<1>. QED  BY <1>1, <1>2, <1>4, <1>5 DEF IInv, L1Keeps

(* Steps of the event loop that leave the engine and the tracker's block    *)
(* alone, and move the cursors to held headers.                             *)
LEMMA LoopStep ==
  ASSUME IInv, L1Keeps, UNCHANGED <<eeVars, l1Vars>>, LoopTypes',
         tracker'.last \in {None, tracker.last, eeHead},
         iter'.events = <<>> \/ iter'.events = iter.events,
         HeadersHeld'
  PROVE  IInv'
<1>1. Types'
  <2>1. EngineTypes'
    BY DEF IInv, Types, EngineTypes, eeVars
  <2>. QED  BY <2>1, L1TypesKept DEF Types
<1>2. EventsOrdered' /\ Events' \subseteq Events
  <2>1. CASE iter'.events = iter.events
    BY <2>1 DEF IInv, EventsOrdered, Events
  <2>2. CASE iter'.events = <<>>
    <3>1. Len(iter'.events) = 0
      BY <2>2
    <3>. QED  BY <3>1 DEF EventsOrdered, Events
  <2>. QED  BY <2>1, <2>2
<1>3. Inside' \subseteq Inside /\ eeOrigin' = eeOrigin
  BY FewerBlocks DEF eeVars, EngineBlocks
<1>4. ProposalsSound' /\ ReadLater' /\ Recorded'
  BY <1>2, <1>3, NothingNew
<1>. QED  BY <1>1, <1>2, <1>4 DEF IInv, L1Keeps

(* A new head is announced.                                                 *)
LEMMA NewL1HeadKeeps ==
  ASSUME IInv, L1Keeps, NewL1Head
  PROVE  IInv'
<1>1. PICK h \in 0..Len(l1) : h = Len(l1)
  BY L1Facts DEF IInv
<1>2. Header(h) \in Headers /\ Held(Header(h)) /\ l1Head' = Header(h)
  BY <1>1, HeaderHeld DEF IInv, NewL1Head
<1>3. HeadersHeld'
  <2>1. PICK a, b, c : a = l1Head' /\ b = l1Current /\ c = iter.end
    OBVIOUS
  <2>2. Held(a) /\ Held(b) /\ Held(c)
    BY <1>2, <2>1 DEF IInv, HeadersHeld
  <2>. QED  BY <2>1, <2>2, HeadersKept DEF NewL1Head
<1>4. LoopTypes'
  BY <1>2 DEF IInv, Types, LoopTypes, NewL1Head, eeVars, Event
<1>5. tracker' = tracker /\ iter' = iter /\ UNCHANGED <<eeVars, l1Vars>>
  BY DEF NewL1Head
<1>. QED  BY <1>3, <1>4, <1>5, LoopStep

(* The tracker gives up.                                                    *)
LEMMA TrackTimeoutKeeps ==
  ASSUME IInv, L1Keeps, TrackTimeout
  PROVE  IInv'
<1>1. HeadersHeld'
  BY HeadersStay DEF TrackTimeout
<1>2. LoopTypes' /\ tracker'.last = tracker.last
  BY DEF IInv, Types, LoopTypes, TrackTimeout, eeVars, Event
<1>3. iter' = iter /\ UNCHANGED <<eeVars, l1Vars>>
  BY DEF TrackTimeout
<1>. QED  BY <1>1, <1>2, <1>3, LoopStep

(* A call fails: the batch is read again.                                   *)
LEMMA CallFailsKeeps ==
  ASSUME IInv, L1Keeps, CallFails
  PROVE  IInv'
<1>1. HeadersHeld'
  BY HeadersStay DEF CallFails
<1>2. LoopTypes' /\ tracker'.last = tracker.last
  <2>1. faults' \in 0..MaxFaults
    BY DriverAssumption DEF DriverAssumption, CallFails, IInv, Types, LoopTypes
  <2>. QED  BY <2>1 DEF IInv, Types, LoopTypes, CallFails, eeVars, Event
<1>3. iter' = iter /\ UNCHANGED <<eeVars, l1Vars>>
  BY DEF CallFails
<1>. QED  BY <1>1, <1>2, <1>3, LoopStep

(* No parent: the batch is read again.                                      *)
LEMMA ParentMissingKeeps ==
  ASSUME IInv, L1Keeps, ParentMissing
  PROVE  IInv'
<1>1. HeadersHeld'
  BY HeadersStay DEF ParentMissing
<1>2. LoopTypes' /\ tracker'.last = tracker.last
  BY DEF IInv, Types, LoopTypes, ParentMissing, AtEvent, eeVars, Event
<1>3. iter' = iter /\ UNCHANGED <<eeVars, l1Vars>>
  BY DEF ParentMissing
<1>. QED  BY <1>1, <1>2, <1>3, LoopStep

(* The genesis header is on every chain.                                    *)
LEMMA GenesisHeld ==
  ASSUME Types, ChainOK
  PROVE  Genesis \in Headers /\ Held(Genesis) /\ OnL1(Genesis) /\ Len(Genesis) = 0
<1>1. 0 \in 0..Len(l1)
  BY L1Facts
<1>2. Header(0) \in Headers /\ Held(Header(0)) /\ OnL1(Header(0)) /\ Len(Header(0)) = 0
  BY <1>1, HeaderHeld
<1>3. Header(0) = Genesis
  BY <1>2, HeaderFacts, EmptySeq DEF Genesis
<1>. QED  BY <1>2, <1>3

(* The proposals of the chain follow each other on L1.                      *)
LEMMA DerivedOrdered ==
  ASSUME Types, ChainOK, NEW j \in 1..Len(derived), NEW i \in 1..j
  PROVE  IsPrefix(derived[i].l1, derived[j].l1)
<1>1. i \in 1..Len(derived)
  BY DerivedFacts
<1>2. /\ derived[i].l1 \in Seq(Int) /\ derived[j].l1 \in Seq(Int) /\ l1 \in Seq(Int)
      /\ IsPrefix(derived[i].l1, l1) /\ IsPrefix(derived[j].l1, l1)
      /\ Len(derived[i].l1) <= Len(derived[j].l1)
  BY <1>1, DerivedFacts, L1Facts DEF ChainOK, OnL1
<1>. QED  BY ONLY <1>2, PrefixesOfOne

(* The events of a range of heights are consecutive proposals.              *)
LEMMA EventsInFacts ==
  ASSUME Types, ChainOK, NEW lo \in Int, NEW hi \in Int
  PROVE  /\ EventsIn(lo, hi) \in Seq(Proposal)
         /\ \E b \in Nat : \A k \in 1..Len(EventsIn(lo, hi)) :
              b + k \in 1..Len(derived) /\ EventsIn(lo, hi)[k] = derived[b + k]
<1>1. PICK b, c : b = Before(lo) /\ c = Before(hi + 1)
  OBVIOUS
<1>2. b \in 0..Len(derived) /\ c \in 0..Len(derived) /\ Len(derived) \in Nat
  <2>1. hi + 1 \in Int
    OBVIOUS
  <2>2. Before(hi + 1) \in 0..Len(derived)
    BY <2>1, BeforeIs
  <2>. QED  BY <1>1, <2>2, BeforeIs, DerivedFacts
<1>3. b \in Nat /\ c \in Nat /\ b + 1 \in 1..Len(derived) + 1 /\ c <= Len(derived)
  BY <1>2
<1>4. derived \in Seq(Proposal) /\ \A k \in 1..Len(derived) : derived[k] \in Proposal
  BY DerivedFacts
<1>5. EventsIn(lo, hi) = SubSeq(derived, b + 1, c)
  BY <1>1 DEF EventsIn
<1>6. /\ EventsIn(lo, hi) \in Seq(Proposal)
      /\ \A k \in 1..Len(EventsIn(lo, hi)) :
           b + k \in 1..Len(derived) /\ EventsIn(lo, hi)[k] = derived[b + k]
  <2>1. CASE b + 1 > c
    <3>1. EventsIn(lo, hi) = <<>>
      BY <1>3, <1>4, <1>5, <2>1, SubSeqEmpty
    <3>2. EventsIn(lo, hi) \in Seq(Proposal) /\ Len(EventsIn(lo, hi)) = 0
      BY <3>1
    <3>. QED  BY <3>2
  <2>2. CASE b + 1 <= c
    <3>1. /\ SubSeq(derived, b + 1, c) \in Seq(Proposal)
          /\ Len(SubSeq(derived, b + 1, c)) = c - b
          /\ \A k \in 1..c - b : SubSeq(derived, b + 1, c)[k] = derived[b + k]
      BY <1>2, <1>3, <1>4, <2>2
    <3>2. \A k \in 1..c - b : b + k \in 1..Len(derived)
      BY <1>2
    <3>. QED  BY <1>3, <1>5, <3>1, <3>2
  <2>. QED  BY <1>3, <2>1, <2>2
<1>. QED  BY <1>3, <1>6

(* What the engine is told to sync to is verified.                          *)
LEMMA TriggerBeaconSyncKeeps ==
  ASSUME IInv, L1Keeps, TriggerBeaconSync
  PROVE  IInv'
<1>1. /\ DerivedBlock(verified) \in Blocks /\ DerivedBlock(verified) # None
      /\ Len(DerivedBlock(verified)) = verified
      /\ \A k \in 1..verified : DerivedBlock(verified)[k] = derived[k]
  <2>1. /\ verified \in 0..Len(derived) /\ derived \in Seq(Proposal)
        /\ Len(derived) \in 0..MaxBlocks /\ MaxBlocks \in Nat
    BY L1Facts, DerivedFacts DEF IInv
  <2>2. /\ DerivedBlock(verified) \in Seq(Proposal) /\ Len(DerivedBlock(verified)) = verified
        /\ \A k \in 1..verified : DerivedBlock(verified)[k] = derived[k]
    BY <2>1, FirstElements DEF DerivedBlock
  <2>3. DerivedBlock(verified) \in Blocks
    BY <2>1, <2>2 DEF Blocks
  <2>. QED  BY <2>2, <2>3, BlockFacts
<1>2. LoopTypes'
  BY <1>1 DEF IInv, Types, LoopTypes, TriggerBeaconSync, Event
<1>3. EngineTypes'
  BY <1>1 DEF IInv, Types, EngineTypes, TriggerBeaconSync
<1>4. Types'
  BY <1>2, <1>3, L1TypesKept DEF Types
<1>5. HeadersHeld'
  BY HeadersStay DEF TriggerBeaconSync
<1>6. Events' = {} /\ EventsOrdered'
  <2>1. iter'.events = <<>>
    BY DEF IInv, Types, LoopTypes, TriggerBeaconSync
  <2>2. Len(iter'.events) = 0
    BY <2>1
  <2>. QED  BY <2>2 DEF Events, EventsOrdered
<1>7. ASSUME NEW p \in Inside'
      PROVE  p \in Inside \/ \E k \in 1..verified : p = derived[k]
  <2>1. EngineBlocks' \subseteq EngineBlocks \cup {DerivedBlock(verified)}
    <3>1. tracker'.last \in {tracker.last, DerivedBlock(verified)}
      BY DEF TriggerBeaconSync, IInv, Types, LoopTypes
    <3>2. eeTarget' \in {eeTarget, DerivedBlock(verified)}
      BY DEF TriggerBeaconSync
    <3>3. eeHead' = eeHead /\ eeOrigin' = eeOrigin
      BY DEF TriggerBeaconSync
    <3>. QED  BY <3>1, <3>2, <3>3 DEF EngineBlocks
  <2>2. PICK b \in EngineBlocks' : \E k \in 1..Len(b) : p = b[k]
    BY DEF Inside
  <2>3. CASE b \in EngineBlocks
    BY <2>2, <2>3, InsideIs
  <2>4. CASE b = DerivedBlock(verified)
    BY <1>1, <2>2, <2>4
  <2>. QED  BY <2>1, <2>2, <2>3, <2>4
<1>8. ASSUME NEW k \in 1..verified
      PROVE  Sound(derived[k]) /\ Certain(derived[k])
  <2>1. k \in 1..Len(derived) /\ verified \in Nat
    BY L1Facts, DerivedFacts DEF IInv
  <2>2. derived[k].id = k /\ Sound(derived[k])
    BY <2>1, DerivedFacts DEF IInv, ChainOK
  <2>. QED  BY <2>1, <2>2 DEF Certain
<1>9. \A p \in Inside' \cup Events' : Sound(p)
  BY <1>6, <1>7, <1>8 DEF IInv, ProposalsSound
<1>10. \A p \in Inside', e \in Events' : Precedes(p, e)
  BY <1>6
<1>11. \A p \in Inside' : eeOrigin'[p.id] = None => Certain(p)
  BY <1>7, <1>8 DEF IInv, Recorded, TriggerBeaconSync
<1>12. ProposalsSound' /\ ReadLater' /\ Recorded'
  BY <1>9, <1>10, <1>11, StepKeeps
<1>. QED  BY <1>4, <1>5, <1>6, <1>12 DEF IInv, L1Keeps

(* The cursor moves to where the engine's head was proposed.                *)
LEMMA StartBlockSyncKeeps ==
  ASSUME IInv, L1Keeps, StartBlockSync
  PROVE  IInv'
<1>1. l1Current' \in Headers /\ Held(l1Current')
  <2>1. CASE ~tracker.triggered
    BY <2>1 DEF StartBlockSync, IInv, Types, LoopTypes, HeadersHeld
  <2>2. CASE tracker.triggered /\ Len(eeHead) = 0
    BY <2>2, GenesisHeld DEF StartBlockSync, ProposedIn, IInv
  <2>3. CASE tracker.triggered /\ Len(eeHead) # 0
    <3>1. eeHead \in Blocks
      BY DEF IInv, Types, EngineTypes
    <3>2. Len(eeHead) \in Nat
      BY <3>1, BlockFacts
    <3>3. PICK n \in 1..Len(derived) : n = Len(eeHead)
      BY <2>3, <3>2, DerivedFacts DEF StartBlockSync, IInv
    <3>4. l1Current' = derived[n].l1
      BY <2>3, <3>3 DEF StartBlockSync, ProposedIn
    <3>5. Sound(derived[n])
      BY DerivedFacts DEF IInv
    <3>. QED  BY <3>4, <3>5 DEF Sound, Held
  <2>. QED  BY <2>1, <2>2, <2>3
<1>2. HeadersHeld'
  <2>1. PICK a, b, c : a = l1Head /\ b = l1Current' /\ c = iter.end
    OBVIOUS
  <2>2. Held(a) /\ Held(b) /\ Held(c)
    BY <1>1, <2>1 DEF IInv, HeadersHeld
  <2>. QED  BY <2>1, <2>2, HeadersKept DEF StartBlockSync
<1>3. tracker'.last \in {tracker.last, eeHead} /\ tracker' \in
        [triggered : BOOLEAN, finished : BOOLEAN, outOfSync : BOOLEAN,
         last : Blocks \cup {None}] /\ (tracker'.triggered => tracker'.last # None)
  <2>1. eeHead \in Blocks /\ eeHead # None
    BY BlockFacts DEF IInv, Types, EngineTypes
  <2>. QED  BY <2>1 DEF IInv, Types, LoopTypes, StartBlockSync
<1>4. LoopTypes'
  BY <1>1, <1>3 DEF IInv, Types, LoopTypes, StartBlockSync, Event
<1>5. iter' = iter /\ UNCHANGED <<eeVars, l1Vars>>
  BY DEF StartBlockSync
<1>. QED  BY <1>2, <1>3, <1>4, <1>5, LoopStep

(* The least of two numbers.                                                *)
LEMMA LeastOfTwo ==
  ASSUME NEW a \in Nat, NEW b \in Nat
  PROVE  Min({a, b}) \in Nat /\ Min({a, b}) <= a /\ Min({a, b}) <= b
         /\ Min({a, b}) \in {a, b}
<1> DEFINE S == {a, b}
<1>1. a + b \in Nat /\ S \in SUBSET (0..a + b) /\ S # {}
  OBVIOUS
<1>2. Min(S) \in S /\ \A y \in S : Min(S) <= y
  <2> HIDE DEF S
  <2>. QED  BY ONLY <1>1, LeastExists
<1>. QED  BY <1>2

(* The iterator runs from the cursor, or from below the head, to the head.  *)
LEMMA OpenIteratorKeeps ==
  ASSUME IInv, L1Keeps, OpenIterator
  PROVE  IInv'
<1> DEFINE behind == Len(l1Current) >= Len(l1Head) /\ l1Current # l1Head
           start  == IF behind THEN Header(Len(l1Head) - 1) ELSE l1Current
<1>1. l1Head \in Headers /\ l1Current \in Headers /\ Held(l1Head) /\ Held(l1Current)
  BY DEF IInv, Types, LoopTypes, HeadersHeld
<1>2. start \in Headers /\ Held(start)
  <2>1. CASE behind
    <3>1. PICK h \in 0..Len(l1) : h = Len(l1Head) - 1
      BY <2>1 DEF OpenIterator
    <3>2. Header(h) \in Headers /\ Held(Header(h))
      BY HeaderHeld DEF IInv
    <3>. QED  BY <2>1, <3>1, <3>2
  <2>. QED  BY <1>1, <2>1
<1>3. /\ pc = "process" /\ l1Current' = start
      /\ lastInserted' = IF behind THEN Nil ELSE lastInserted
      /\ \/ /\ pc' = "read"
            /\ iter' = [cur |-> Len(start), end |-> l1Head, batch |-> Len(start),
                        events |-> <<>>]
         \/ /\ pc' = "idle"
            /\ iter' = iter
      /\ UNCHANGED <<l1Vars, eeVars, l1Head, tracker, faults>>
  BY DEF OpenIterator
<1> HIDE DEF behind, start
<1>4. HeadersHeld'
  <2>1. PICK a, b, c : a = l1Head /\ b = start /\ c = iter'.end
    OBVIOUS
  <2>2. Held(iter.end)
    BY DEF IInv, HeadersHeld
  <2>3. Held(a) /\ Held(b) /\ Held(c)
    BY <1>1, <1>2, <1>3, <2>1, <2>2
  <2>. QED  BY <1>3, <2>1, <2>3, HeadersKept
<1>5. iter'.events = <<>> /\ iter' \in [cur : 0..MaxL1Height, end : Headers,
                                        batch : 0..MaxL1Height, events : Seq(Proposal)]
  <2>1. Len(start) \in 0..MaxL1Height
    BY <1>2, HeaderFacts
  <2>2. iter.events = <<>> /\ iter \in [cur : 0..MaxL1Height, end : Headers,
                                        batch : 0..MaxL1Height, events : Seq(Proposal)]
    BY <1>3 DEF IInv, Types, LoopTypes
  <2>3. <<>> \in Seq(Proposal)
    OBVIOUS
  <2>. QED  BY <1>1, <1>3, <2>1, <2>2, <2>3
<1>6. LoopTypes'
  BY <1>1, <1>2, <1>3, <1>5 DEF IInv, Types, LoopTypes
<1>. QED  BY <1>3, <1>4, <1>5, <1>6, LoopStep

(* The events read are on L1, in their order: all inside precedes them.     *)
LEMMA ReadBatchKeeps ==
  ASSUME IInv, L1Keeps, ReadBatch
  PROVE  IInv'
<1> DEFINE cur   == Min({iter.cur, Len(l1)})
           batch == Min({cur + BlocksReadPerEpoch, Len(iter.end)})
<1>1. /\ iter \in [cur : 0..MaxL1Height, end : Headers, batch : 0..MaxL1Height,
                   events : Seq(Proposal)]
      /\ MaxL1Height \in Nat /\ Len(l1) \in 0..MaxL1Height
      /\ iter.end \in Headers /\ Len(iter.end) \in 0..MaxL1Height /\ Held(iter.end)
      /\ l1Current \in Headers /\ Held(l1Current) /\ l1Head \in Headers /\ Held(l1Head)
  BY L1Facts, HeaderFacts DEF IInv, Types, LoopTypes, HeadersHeld
<1>2. cur \in 0..MaxL1Height /\ batch \in 0..MaxL1Height
  <2>1. cur \in Nat /\ cur <= Len(l1)
    BY <1>1, LeastOfTwo
  <2>2. BlocksReadPerEpoch \in Nat
    BY DriverAssumption DEF DriverAssumption
  <2>3. cur + BlocksReadPerEpoch \in Nat /\ Len(iter.end) \in Nat
    BY <1>1, <2>1, <2>2
  <2>4. batch \in Nat /\ batch <= Len(iter.end)
    BY <2>3, LeastOfTwo
  <2>. QED  BY <1>1, <2>1, <2>4
<1>3. /\ pc = "read"
      /\ \/ /\ iter' = [iter EXCEPT !.cur = batch, !.batch = batch, !.events = <<>>]
            /\ UNCHANGED <<pc, l1Current>>
         \/ /\ iter' = [iter EXCEPT !.cur = cur, !.batch = batch,
                                    !.events = EventsIn(cur, batch)]
            /\ pc' = "iter" /\ l1Current' = l1Current
         \/ /\ l1Current' = iter.end /\ iter' = NoIter /\ pc' = "idle"
      /\ UNCHANGED <<l1Vars, eeVars, l1Head, lastInserted, tracker, syncNotify, faults>>
  BY DEF ReadBatch
<1> HIDE DEF cur, batch
<1>4. CASE /\ iter' = [iter EXCEPT !.cur = batch, !.batch = batch, !.events = <<>>]
           /\ UNCHANGED <<pc, l1Current>>
  <2>1. /\ iter' \in [cur : 0..MaxL1Height, end : Headers, batch : 0..MaxL1Height,
                      events : Seq(Proposal)]
        /\ iter'.events = <<>> /\ iter'.end = iter.end
    <3>1. <<>> \in Seq(Proposal)
      OBVIOUS
    <3>. QED  BY <1>1, <1>2, <1>4, <3>1
  <2>2. LoopTypes'
    BY <1>3, <1>4, <2>1 DEF IInv, Types, LoopTypes
  <2>3. HeadersHeld'
    BY <1>3, <1>4, <2>1, HeadersStay
  <2>. QED  BY <1>3, <2>1, <2>2, <2>3, LoopStep
<1>5. CASE l1Current' = iter.end /\ iter' = NoIter /\ pc' = "idle"
  <2>1. Genesis \in Headers /\ Held(Genesis)
    BY GenesisHeld DEF IInv
  <2>2. /\ iter' \in [cur : 0..MaxL1Height, end : Headers, batch : 0..MaxL1Height,
                      events : Seq(Proposal)]
        /\ iter'.events = <<>> /\ iter'.end = Genesis
    <3>1. <<>> \in Seq(Proposal) /\ 0 \in 0..MaxL1Height
      BY <1>1
    <3>. QED  BY <1>5, <2>1, <3>1 DEF NoIter
  <2>3. LoopTypes'
    BY <1>1, <1>3, <1>5, <2>2 DEF IInv, Types, LoopTypes
  <2>4. HeadersHeld'
    <3>1. PICK a, b, c : a = l1Head /\ b = iter.end /\ c = Genesis
      OBVIOUS
    <3>2. Held(a) /\ Held(b) /\ Held(c)
      BY <1>1, <2>1, <3>1
    <3>. QED  BY <1>3, <1>5, <2>2, <3>1, <3>2, HeadersKept
  <2>. QED  BY <1>3, <2>2, <2>3, <2>4, LoopStep
<1>6. CASE /\ iter' = [iter EXCEPT !.cur = cur, !.batch = batch,
                                   !.events = EventsIn(cur, batch)]
           /\ pc' = "iter" /\ l1Current' = l1Current
  <2>1. PICK lo \in Int, hi \in Int : lo = cur /\ hi = batch
    BY <1>1, <1>2
  <2>2. PICK b \in Nat : /\ EventsIn(lo, hi) \in Seq(Proposal)
                         /\ \A k \in 1..Len(EventsIn(lo, hi)) :
                              b + k \in 1..Len(derived) /\ EventsIn(lo, hi)[k] = derived[b + k]
    BY EventsInFacts DEF IInv
  <2>3. /\ iter'.events \in Seq(Proposal) /\ Len(iter'.events) \in Nat
        /\ \A k \in 1..Len(iter'.events) :
             b + k \in 1..Len(derived) /\ iter'.events[k] = derived[b + k]
        /\ iter'.end = iter.end
        /\ iter' \in [cur : 0..MaxL1Height, end : Headers, batch : 0..MaxL1Height,
                      events : Seq(Proposal)]
    <3>1. iter'.events = EventsIn(lo, hi) /\ iter'.end = iter.end /\ iter'.cur = cur
          /\ iter'.batch = batch
      BY <1>1, <1>6, <2>1
    <3>2. iter' \in [cur : 0..MaxL1Height, end : Headers, batch : 0..MaxL1Height,
                     events : Seq(Proposal)]
      BY <1>1, <1>2, <1>6, <2>1, <2>2
    <3>. QED  BY <2>2, <3>1, <3>2, LenProperties
  <2>4. Types'
    <3>1. LoopTypes'
      BY <1>3, <1>6, <2>3 DEF IInv, Types, LoopTypes
    <3>2. EngineTypes'
      BY <1>3 DEF IInv, Types, EngineTypes, eeVars
    <3>. QED  BY <3>1, <3>2, L1TypesKept DEF Types
  <2>5. HeadersHeld'
    BY <1>3, <1>6, <2>3, HeadersStay
  <2>6. \A k \in 1..Len(derived) : derived[k].id = k
    BY DEF IInv, ChainOK
  <2>7. EventsOrdered'
    <3>1. ASSUME NEW i \in 1..Len(iter'.events), NEW j \in 1..Len(iter'.events), i < j
          PROVE  /\ iter'.events[i].id < iter'.events[j].id
                 /\ IsPrefix(iter'.events[i].l1, iter'.events[j].l1)
      <4>1. b + j \in 1..Len(derived) /\ b + i \in 1..b + j /\ b + i < b + j
        BY <2>3, <3>1
      <4>2. iter'.events[i] = derived[b + i] /\ iter'.events[j] = derived[b + j]
            /\ b + i \in 1..Len(derived)
        BY <2>3
      <4>3. IsPrefix(derived[b + i].l1, derived[b + j].l1)
        BY <4>1, DerivedOrdered DEF IInv
      <4>. QED  BY <2>6, <4>1, <4>2, <4>3
    <3>. QED  BY <3>1 DEF EventsOrdered
  <2>8. ASSUME NEW e \in Events'
        PROVE  e.id \in 1..Len(derived) /\ e = derived[e.id] /\ Sound(e)
    <3>1. PICK k \in 1..Len(iter'.events) : e = iter'.events[k]
      BY DEF Events
    <3>2. b + k \in 1..Len(derived) /\ e = derived[b + k]
      BY <2>3, <3>1
    <3>. QED  BY <2>6, <3>2, DerivedFacts DEF IInv
  <2>9. Inside' = Inside /\ eeOrigin' = eeOrigin
    BY <1>3, SameEngine DEF eeVars
  <2>10. ASSUME NEW p \in Inside, NEW e \in Events'
         PROVE  Precedes(p, e)
    <3> SUFFICES ASSUME OnL1(p.l1)
                 PROVE  /\ p.id < e.id => IsPrefix(p.l1, e.l1)
                        /\ p.id = e.id => p = e
      BY DEF Precedes
    <3>1. p.id <= Len(derived) /\ derived[p.id] = p /\ p.id \in Nat /\ p.id >= 1
      BY ProposalFacts DEF IInv, ProposalsSound, Sound
    <3>2. e.id \in 1..Len(derived) /\ e = derived[e.id]
      BY <2>8
    <3>3. ASSUME p.id < e.id
          PROVE  IsPrefix(p.l1, e.l1)
      <4>1. p.id \in 1..e.id
        BY <3>1, <3>2, <3>3
      <4>2. IsPrefix(derived[p.id].l1, derived[e.id].l1)
        BY <3>2, <4>1, DerivedOrdered DEF IInv
      <4>. QED  BY <3>1, <3>2, <4>2
    <3>. QED  BY <3>1, <3>2, <3>3
  <2>11. ProposalsSound' /\ ReadLater' /\ Recorded'
    <3>1. \A p \in Inside' \cup Events' : Sound(p)
      BY <2>8, <2>9 DEF IInv, ProposalsSound
    <3>2. \A p \in Inside', e \in Events' : Precedes(p, e)
      BY <2>9, <2>10
    <3>3. \A p \in Inside' : eeOrigin'[p.id] = None => Certain(p)
      BY <2>9 DEF IInv, Recorded
    <3>. QED  BY <3>1, <3>2, <3>3, StepKeeps
  <2>. QED  BY <2>4, <2>5, <2>7, <2>11 DEF IInv, L1Keeps
<1>. QED  BY <1>3, <1>4, <1>5, <1>6

(* The events left are those after the one handled.                         *)
LEMMA HandledFacts ==
  ASSUME IInv, iter.events # <<>>, Handled
  PROVE  /\ iter' \in [cur : 0..MaxL1Height, end : Headers, batch : 0..MaxL1Height,
                       events : Seq(Proposal)]
         /\ iter'.end = iter.end /\ pc' \in {"read", "iter"}
         /\ Events' \subseteq Events /\ EventsOrdered'
<1>1. /\ iter \in [cur : 0..MaxL1Height, end : Headers, batch : 0..MaxL1Height,
                   events : Seq(Proposal)]
      /\ iter.events \in Seq(Proposal) /\ Len(iter.events) \in Nat \ {0}
      /\ Event \in Proposal
  BY EventFacts DEF IInv, Types, LoopTypes
<1>2. pc' \in {"read", "iter"}
  BY DEF Handled
<1>3. CASE Len(iter.events) = 1
  <2>1. iter' = [iter EXCEPT !.cur = iter.batch, !.events = <<>>]
    BY <1>3 DEF Handled
  <2>2. <<>> \in Seq(Proposal) /\ Len(<<>>) = 0
    OBVIOUS
  <2>3. /\ iter' \in [cur : 0..MaxL1Height, end : Headers, batch : 0..MaxL1Height,
                      events : Seq(Proposal)]
        /\ iter'.events = <<>> /\ iter'.end = iter.end
    BY <1>1, <2>1, <2>2
  <2>4. Len(iter'.events) = 0
    BY <2>3
  <2>. QED  BY <1>2, <2>3, <2>4 DEF Events, EventsOrdered
<1>4. CASE Len(iter.events) # 1
  <2>1. iter' = [iter EXCEPT !.cur = Len(Event.l1), !.events = Tail(iter.events)]
    BY <1>4 DEF Handled
  <2>2. Len(Event.l1) \in 0..MaxL1Height
    BY <1>1, ProposalFacts
  <2>3. /\ Tail(iter.events) \in Seq(Proposal)
        /\ Len(Tail(iter.events)) = Len(iter.events) - 1
        /\ \A k \in 1..Len(iter.events) - 1 : Tail(iter.events)[k] = iter.events[k + 1]
    <3>1. iter.events # <<>>
      OBVIOUS
    <3>. QED  BY <1>1, <3>1, HeadTailProperties
  <2>4. /\ iter' \in [cur : 0..MaxL1Height, end : Headers, batch : 0..MaxL1Height,
                      events : Seq(Proposal)]
        /\ iter'.events = Tail(iter.events) /\ iter'.end = iter.end
    BY <1>1, <2>1, <2>2, <2>3
  <2>5. /\ Len(iter'.events) = Len(iter.events) - 1
        /\ \A k \in 1..Len(iter'.events) :
             k + 1 \in 1..Len(iter.events) /\ iter'.events[k] = iter.events[k + 1]
    BY <1>1, <2>3, <2>4
  <2>6. Events' \subseteq Events
    BY <2>5 DEF Events
  <2>7. EventsOrdered'
    <3>1. ASSUME NEW i \in 1..Len(iter'.events), NEW j \in 1..Len(iter'.events), i < j
          PROVE  /\ iter'.events[i].id < iter'.events[j].id
                 /\ IsPrefix(iter'.events[i].l1, iter'.events[j].l1)
      <4>1. i + 1 \in 1..Len(iter.events) /\ j + 1 \in 1..Len(iter.events) /\ i + 1 < j + 1
        BY <2>5, <3>1
      <4>2. /\ iter.events[i + 1].id < iter.events[j + 1].id
            /\ IsPrefix(iter.events[i + 1].l1, iter.events[j + 1].l1)
        BY <4>1 DEF IInv, EventsOrdered
      <4>. QED  BY <2>5, <4>2
    <3>. QED  BY <3>1 DEF EventsOrdered
  <2>. QED  BY <1>2, <2>4, <2>6, <2>7
<1>. QED  BY <1>3, <1>4

(* An event passed over.                                                    *)
LEMMA SkipEventKeeps ==
  ASSUME IInv, L1Keeps, SkipEvent
  PROVE  IInv'
<1>1. /\ iter.events # <<>> /\ Handled
      /\ UNCHANGED <<l1Vars, eeVars, l1Head, l1Current, lastInserted, tracker, syncNotify, faults>>
  BY DEF SkipEvent, AtEvent
<1>2. /\ iter' \in [cur : 0..MaxL1Height, end : Headers, batch : 0..MaxL1Height,
                    events : Seq(Proposal)]
      /\ iter'.end = iter.end /\ pc' \in {"read", "iter"}
      /\ Events' \subseteq Events /\ EventsOrdered'
  BY <1>1, HandledFacts
<1>3. Types'
  <2>1. LoopTypes'
    BY <1>1, <1>2 DEF IInv, Types, LoopTypes
  <2>2. EngineTypes'
    BY <1>1 DEF IInv, Types, EngineTypes, eeVars
  <2>. QED  BY <2>1, <2>2, L1TypesKept DEF Types
<1>4. HeadersHeld'
  BY <1>1, <1>2, HeadersStay
<1>5. Inside' = Inside /\ eeOrigin' = eeOrigin
  BY <1>1, SameEngine DEF eeVars
<1>6. ProposalsSound' /\ ReadLater' /\ Recorded'
  BY <1>2, <1>5, NothingNew
<1>. QED  BY <1>2, <1>3, <1>4, <1>6 DEF IInv, L1Keeps

(* The new head has its L1Origin.                                           *)
LEMMA InsertHeadKeeps ==
  ASSUME IInv, L1Keeps, InsertHead
  PROVE  IInv'
<1>1. /\ iter.events # <<>> /\ Handled /\ eeOrigin[Event.id] # None
      /\ eeHead' = eeOrigin[Event.id] /\ headOrigin' = Event.id /\ lastInserted' = Event.id
      /\ UNCHANGED <<l1Vars, eeOrigin, eeTarget, l1Head, l1Current, syncNotify, faults>>
  BY DEF InsertHead, IInv, Types, LoopTypes
<1>2. /\ iter' \in [cur : 0..MaxL1Height, end : Headers, batch : 0..MaxL1Height,
                    events : Seq(Proposal)]
      /\ iter'.end = iter.end /\ pc' \in {"read", "iter"}
      /\ Events' \subseteq Events /\ EventsOrdered'
  BY <1>1, HandledFacts
<1>3. Event.id \in BlockIDs /\ Event.id \in 1..MaxBlocks
  BY <1>1, EventFacts, ProposalFacts
<1>4. tracker'.last \in {None, tracker.last} /\ (tracker'.triggered => tracker'.last # None)
      /\ tracker' \in [triggered : BOOLEAN, finished : BOOLEAN, outOfSync : BOOLEAN,
                       last : Blocks \cup {None}]
  BY DEF InsertHead, IInv, Types, LoopTypes
<1>5. Types'
  <2>1. LoopTypes'
    <3>1. lastInserted' \in 0..MaxBlocks \cup {Nil}
      BY <1>1, <1>3
    <3>. QED  BY <1>1, <1>2, <1>4, <3>1 DEF IInv, Types, LoopTypes
  <2>2. EngineTypes'
    BY <1>1, <1>3 DEF IInv, Types, EngineTypes
  <2>. QED  BY <2>1, <2>2, L1TypesKept DEF Types
<1>6. HeadersHeld'
  BY <1>1, <1>2, HeadersStay
<1>7. Inside' \subseteq Inside /\ eeOrigin' = eeOrigin
  BY <1>1, <1>3, <1>4, FewerBlocks DEF EngineBlocks
<1>8. ProposalsSound' /\ ReadLater' /\ Recorded'
  BY <1>2, <1>7, NothingNew
<1>. QED  BY <1>2, <1>5, <1>6, <1>8 DEF IInv, L1Keeps

(* The parent a payload is built on has fewer blocks than the event's ID,   *)
(* all from the engine.                                                     *)
LEMMA ParentFacts ==
  ASSUME IInv, AtEvent, ~AlreadyInserted, HasParent(Event.id)
  PROVE  /\ Parent(Event.id) \in Blocks /\ Len(Parent(Event.id)) < Event.id
         /\ \A k \in 1..Len(Parent(Event.id)) : Parent(Event.id)[k] \in Inside
<1>1. Event.id \in 1..MaxBlocks /\ Event.id \in Nat /\ MaxBlocks \in Nat
  BY EventFacts, ProposalFacts DEF AtEvent
<1>2. /\ eeHead \in Blocks /\ eeHead # None /\ eeHead \in Seq(Proposal)
      /\ Len(eeHead) \in 0..MaxBlocks
  BY BlockFacts DEF IInv, Types, EngineTypes
<1>3. CASE tracker.triggered
  <2>1. Parent(Event.id) = tracker.last /\ tracker.last # None /\ tracker.last \in Blocks
    BY <1>3 DEF Parent, IInv, Types, LoopTypes
  <2>2. LastSynced = Len(tracker.last) /\ ~(Event.id <= LastSynced)
    BY <1>3, <2>1 DEF AlreadyInserted, LastSynced
  <2>3. Len(tracker.last) \in Nat
    BY <2>1, BlockFacts
  <2>4. Len(tracker.last) < Event.id
    BY <1>1, <2>2, <2>3
  <2>. QED  BY <2>1, <2>4, BlocksInside
<1>4. CASE ~tracker.triggered /\ Event.id = 1
  <2>1. Parent(Event.id) = <<>>
    BY <1>4 DEF Parent, Genesis
  <2>2. <<>> \in Seq(Proposal) /\ Len(<<>>) = 0
    OBVIOUS
  <2>3. <<>> \in Blocks
    BY <1>1, <2>2 DEF Blocks
  <2>. QED  BY <1>4, <2>1, <2>2, <2>3
<1>5. CASE ~tracker.triggered /\ Event.id # 1
  <2>1. PICK n \in BlockIDs : n = Event.id - 1
    BY <1>1, <1>5 DEF BlockIDs
  <2>2. n \in Nat /\ n < Event.id
    BY <1>1, <2>1
  <2>3. CASE eeOrigin[n] # None
    <3>1. Parent(Event.id) = eeOrigin[n]
      BY <1>5, <2>1, <2>3 DEF Parent
    <3>2. eeOrigin[n] \in Blocks /\ Len(eeOrigin[n]) <= n
      BY <2>3 DEF IInv, Types, EngineTypes
    <3>3. Len(eeOrigin[n]) \in Nat
      BY <3>2, BlockFacts
    <3>4. Len(eeOrigin[n]) < Event.id
      BY <1>1, <2>2, <3>2, <3>3
    <3>. QED  BY <2>3, <3>1, <3>2, <3>4, BlocksInside
  <2>4. CASE eeOrigin[n] = None
    <3>1. Parent(Event.id) = SubSeq(eeHead, 1, n) /\ n \in 0..Len(eeHead)
      BY <1>1, <1>2, <1>5, <2>1, <2>4 DEF Parent, HasParent, Canonical
    <3>2. /\ SubSeq(eeHead, 1, n) \in Seq(Proposal) /\ Len(SubSeq(eeHead, 1, n)) = n
          /\ \A k \in 1..n : SubSeq(eeHead, 1, n)[k] = eeHead[k]
      BY <1>2, <3>1, FirstElements
    <3>3. \A k \in 1..n : eeHead[k] \in Inside
      BY <1>2, <3>1, BlocksInside
    <3>4. SubSeq(eeHead, 1, n) \in Blocks
      BY <1>1, <1>2, <2>2, <3>1, <3>2 DEF Blocks
    <3>. QED  BY <2>2, <3>1, <3>2, <3>3, <3>4
  <2>. QED  BY <2>3, <2>4
<1>. QED  BY <1>3, <1>4, <1>5

(* The event joins the engine's blocks: the later ones follow it.           *)
LEMMA BuildPayloadKeeps ==
  ASSUME IInv, L1Keeps, BuildPayload
  PROVE  IInv'
<1>1. /\ iter.events # <<>> /\ AtEvent /\ ~AlreadyInserted /\ HasParent(Event.id)
      /\ eeHead' = Parent(Event.id)
      /\ eeOrigin' = [eeOrigin EXCEPT ![Event.id] = Append(Parent(Event.id), Event)]
      /\ eeTarget' = None /\ pc' = "built"
      /\ UNCHANGED <<l1Vars, headOrigin, l1Head, l1Current, lastInserted, tracker, iter,
                     syncNotify, faults>>
  BY DEF BuildPayload, AtEvent
<1>2. /\ Event.id \in BlockIDs /\ Event.id \in 1..MaxBlocks /\ Event.id \in Nat
      /\ MaxBlocks \in Nat /\ Event \in Proposal /\ Event \in Events /\ Sound(Event)
      /\ Event = iter.events[1] /\ Len(iter.events) \in Nat \ {0}
  BY <1>1, EventFacts, ProposalFacts
<1>3. PICK parent \in Blocks : parent = Parent(Event.id)
  BY <1>1, ParentFacts
<1>4. /\ Len(parent) < Event.id /\ \A k \in 1..Len(parent) : parent[k] \in Inside
      /\ parent \in Seq(Proposal) /\ Len(parent) \in Nat
  BY <1>1, <1>3, ParentFacts, BlockFacts
<1>5. PICK new : new = Append(parent, Event)
  OBVIOUS
<1>6. /\ new \in Seq(Proposal) /\ Len(new) = Len(parent) + 1
      /\ \A k \in 1..Len(parent) : new[k] = parent[k]
      /\ new[Len(parent) + 1] = Event /\ new # <<>>
  BY <1>2, <1>4, <1>5, AppendProperties
<1>7. /\ new \in Blocks /\ new # None /\ Len(new) <= Event.id /\ Last(new) = Event
  <2>1. Len(new) <= Event.id /\ Len(new) <= MaxBlocks
    BY <1>2, <1>4, <1>6
  <2>2. new \in Blocks
    BY <1>6, <2>1 DEF Blocks
  <2>. QED  BY <1>6, <2>1, <2>2, BlockFacts DEF Last
<1>8. /\ eeOrigin' = [eeOrigin EXCEPT ![Event.id] = new] /\ eeHead' = parent
      /\ eeOrigin'[Event.id] = new
      /\ \A id \in BlockIDs : id # Event.id => eeOrigin'[id] = eeOrigin[id]
  BY <1>1, <1>2, <1>3, <1>5 DEF IInv, Types, EngineTypes
<1>9. Types'
  <2>1. LoopTypes'
    <3>1. Event' = Event
      BY <1>1 DEF Event
    <3>. QED  BY <1>1, <1>7, <1>8, <3>1 DEF IInv, Types, LoopTypes
  <2>2. EngineTypes'
    <3>1. eeOrigin' \in [BlockIDs -> Blocks \cup {None}]
      BY <1>7, <1>8 DEF IInv, Types, EngineTypes
    <3>2. \A id \in BlockIDs : eeOrigin'[id] # None =>
            eeOrigin'[id] # <<>> /\ Last(eeOrigin'[id]).id = id /\ Len(eeOrigin'[id]) <= id
      BY <1>6, <1>7, <1>8 DEF IInv, Types, EngineTypes
    <3>3. headOrigin' \in BlockIDs \cup {Nil} /\ (headOrigin' # Nil => eeOrigin'[headOrigin'] # None)
      <4>1. headOrigin \in BlockIDs \cup {Nil} /\ (headOrigin # Nil => eeOrigin[headOrigin] # None)
        BY DEF IInv, Types, EngineTypes
      <4>. QED  BY <1>1, <1>7, <1>8, <4>1
    <3>. QED  BY <1>1, <1>3, <1>8, <3>1, <3>2, <3>3 DEF EngineTypes
  <2>. QED  BY <2>1, <2>2, L1TypesKept DEF Types
<1>10. HeadersHeld'
  BY <1>1, HeadersStay
<1>11. Events' = Events /\ EventsOrdered'
  BY <1>1 DEF IInv, Events, EventsOrdered
<1>12. ASSUME NEW p \in Inside'
       PROVE  p \in Inside \/ p = Event
  <2>1. EngineBlocks' \subseteq EngineBlocks \cup {parent, new}
    BY <1>1, <1>8 DEF EngineBlocks
  <2>2. PICK b \in EngineBlocks' : \E k \in 1..Len(b) : p = b[k]
    BY DEF Inside
  <2>3. CASE b \in EngineBlocks
    BY <2>2, <2>3, InsideIs
  <2>4. CASE b = parent
    BY <1>4, <2>2, <2>4
  <2>5. CASE b = new
    <3>1. PICK k \in 1..Len(parent) + 1 : p = new[k]
      BY <1>6, <2>2, <2>5
    <3>2. CASE k = Len(parent) + 1
      BY <1>6, <3>1, <3>2
    <3>3. CASE k # Len(parent) + 1
      <4>1. k \in 1..Len(parent)
        BY <1>4, <3>3
      <4>. QED  BY <1>4, <1>6, <3>1, <4>1
    <3>. QED  BY <3>2, <3>3
  <2>. QED  BY <2>1, <2>2, <2>3, <2>4, <2>5
<1>13. ASSUME NEW e \in Events
       PROVE  Precedes(Event, e)
  <2>1. PICK j \in 1..Len(iter.events) : e = iter.events[j]
    BY DEF Events
  <2>2. CASE j = 1
    <3>1. e = Event
      BY <1>2, <2>1, <2>2
    <3>2. ~(Event.id < e.id)
      BY <1>2, <3>1
    <3>. QED  BY <3>1, <3>2 DEF Precedes
  <2>3. CASE j # 1
    <3>1. 1 \in 1..Len(iter.events) /\ 1 < j
      BY <1>2, <2>3
    <3>2. Event.id < e.id /\ IsPrefix(Event.l1, e.l1)
      BY <1>2, <2>1, <3>1 DEF IInv, EventsOrdered
    <3>3. e.id \in Nat
      BY ProposalFacts DEF IInv, ProposalsSound, Sound
    <3>4. Event.id # e.id
      BY <1>2, <3>2, <3>3
    <3>. QED  BY <3>2, <3>4 DEF Precedes
  <2>. QED  BY <2>2, <2>3
<1>14. ProposalsSound' /\ ReadLater' /\ Recorded'
  <2>1. \A p \in Inside' \cup Events' : Sound(p)
    BY <1>2, <1>11, <1>12 DEF IInv, ProposalsSound
  <2>2. \A p \in Inside', e \in Events' : Precedes(p, e)
    BY <1>11, <1>12, <1>13 DEF IInv, ReadLater
  <2>3. ASSUME NEW p \in Inside', eeOrigin'[p.id] = None
        PROVE  Certain(p)
    <3>1. p \in Inside /\ p.id # Event.id
      BY <1>7, <1>8, <1>12, <2>3
    <3>2. p.id \in BlockIDs
      BY <3>1, ProposalFacts DEF IInv, ProposalsSound, Sound
    <3>. QED  BY <1>8, <2>3, <3>1, <3>2 DEF IInv, Recorded
  <2>. QED  BY <2>1, <2>2, <2>3, StepKeeps
<1>. QED  BY <1>9, <1>10, <1>11, <1>14 DEF IInv, L1Keeps

(* The L1Origin records.                                                    *)
LEMMA OriginFacts ==
  ASSUME IInv, NEW id \in BlockIDs, eeOrigin[id] # None
  PROVE  /\ eeOrigin[id] \in Blocks /\ eeOrigin[id] \in Seq(Proposal)
         /\ Len(eeOrigin[id]) \in Nat \ {0}
         /\ Last(eeOrigin[id]) = eeOrigin[id][Len(eeOrigin[id])]
         /\ \A k \in 1..Len(eeOrigin[id]) : eeOrigin[id][k] \in Inside
         /\ Last(eeOrigin[id]) \in Inside /\ Last(eeOrigin[id]).id = id
         /\ L1Of(eeOrigin[id]) \in Headers /\ Held(L1Of(eeOrigin[id]))
         /\ Len(L1Of(eeOrigin[id])) \in Nat
<1>1. PICK b : b = eeOrigin[id]
  OBVIOUS
<1>2. b \in Blocks /\ b # <<>> /\ Last(b).id = id
  BY <1>1 DEF IInv, Types, EngineTypes
<1>3. b \in Seq(Proposal) /\ Len(b) \in Nat \ {0}
  BY <1>2, BlockFacts, EmptySeq
<1>4. Last(b) = b[Len(b)]
  BY DEF Last
<1>5. \A k \in 1..Len(b) : b[k] \in Inside
  BY <1>1, BlocksInside
<1>6. Last(b) \in Inside
  BY <1>3, <1>4, <1>5
<1>7. L1Of(b) \in Headers /\ Held(L1Of(b))
  BY <1>6 DEF IInv, ProposalsSound, Sound, Held, L1Of
<1>8. Len(L1Of(b)) \in Nat
  BY <1>7, HeaderFacts
<1>. QED  BY <1>1, <1>2, <1>3, <1>4, <1>5, <1>6, <1>7, <1>8

(* The process restarts with the header of an L1Origin or with genesis.     *)
LEMMA RestartKeeps ==
  ASSUME IInv, L1Keeps, Restart, UNCHANGED <<l1Vars, eeVars>>, faults' \in 0..MaxFaults
  PROVE  IInv'
<1>1. l1Current' \in Headers /\ Held(l1Current')
  <2>1. Genesis \in Headers /\ Held(Genesis)
    BY GenesisHeld DEF IInv
  <2>2. CASE headOrigin = Nil
    BY <2>1, <2>2 DEF Restart, RestartCursors
  <2>3. CASE headOrigin # Nil
    <3>1. PICK id \in BlockIDs : id = headOrigin /\ eeOrigin[id] # None
      BY <2>3 DEF IInv, Types, EngineTypes
    <3>2. l1Current' \in {L1Of(eeOrigin[id]), Genesis}
      BY <2>3, <3>1 DEF Restart, RestartCursors
    <3>3. L1Of(eeOrigin[id]) \in Headers /\ Held(L1Of(eeOrigin[id]))
      BY <3>1, OriginFacts
    <3>. QED  BY <2>1, <3>2, <3>3
  <2>. QED  BY <2>2, <2>3
<1>2. PICK h \in 0..Len(l1) : h = Len(l1)
  BY L1Facts DEF IInv
<1>3. Header(h) \in Headers /\ Held(Header(h)) /\ l1Head' = Header(h)
  BY <1>2, HeaderHeld DEF IInv, Restart
<1>4. /\ iter'.events = <<>> /\ iter'.end = Genesis
      /\ iter' \in [cur : 0..MaxL1Height, end : Headers, batch : 0..MaxL1Height,
                    events : Seq(Proposal)]
  <2>1. <<>> \in Seq(Proposal) /\ 0 \in 0..MaxL1Height /\ Genesis \in Headers
    BY GenesisHeld, L1Facts DEF IInv
  <2>. QED  BY <2>1 DEF Restart, NoIter
<1>5. HeadersHeld'
  <2>1. PICK a, b, c : a = l1Head' /\ b = l1Current' /\ c = Genesis
    OBVIOUS
  <2>2. Held(a) /\ Held(b) /\ Held(c)
    BY <1>1, <1>3, <2>1, GenesisHeld DEF IInv
  <2>. QED  BY <1>4, <2>1, <2>2, HeadersKept
<1>6. LoopTypes' /\ tracker'.last = None
  BY <1>1, <1>3, <1>4 DEF LoopTypes, Restart, NewTracker
<1>. QED  BY <1>4, <1>5, <1>6, LoopStep

(* A crash is a restart.                                                    *)
LEMMA CrashKeeps ==
  ASSUME IInv, L1Keeps, Crash
  PROVE  IInv'
<1>1. faults' \in 0..MaxFaults
  BY DriverAssumption DEF DriverAssumption, Crash, IInv, Types, LoopTypes
<1>. QED  BY <1>1, RestartKeeps DEF Crash

-----------------------------------------------------------------------------
(* The reorg checks *)

(* The walk ends, at the first block from the top that stops it.            *)
LEMMA StopsAtIs ==
  ASSUME NEW n \in Nat
  PROVE  /\ StopsAt(n) \in 0..n /\ WalkStops(StopsAt(n))
         /\ \A k \in 0..n : WalkStops(k) => k <= StopsAt(n)
<1> DEFINE S == {k \in 0..n : WalkStops(k)}
<1>1. S \in SUBSET (0..n) /\ 0 \in S /\ StopsAt(n) = Max(S)
  BY DEF StopsAt, WalkStops
<1>2. Max(S) \in S /\ \A y \in S : y <= Max(S)
  <2> HIDE DEF S
  <2>. QED  BY ONLY <1>1, GreatestExists
<1>. QED  BY <1>1, <1>2

(* Powers of two are positive: they count the subsets of a set.             *)
LEMMA PowerPositive ==
  ASSUME NEW n \in Nat
  PROVE  2 ^ n \in Nat \ {0}
<1>1. IsFiniteSet(1..n) /\ Cardinality(1..n) = n
  BY FS_Interval
<1>2. IsFiniteSet(SUBSET (1..n)) /\ Cardinality(SUBSET (1..n)) = 2 ^ n
  BY <1>1, FS_SUBSET
<1>3. Cardinality(SUBSET (1..n)) \in Nat /\ Cardinality(SUBSET (1..n)) # 0
  <2>1. SUBSET (1..n) # {}
    OBVIOUS
  <2>. QED  BY <1>2, <2>1, FS_CardinalityType, FS_EmptySet
<1>. QED  BY <1>2, <1>3

(* A retry goes back, not below genesis.                                    *)
LEMMA PastBlockFacts ==
  ASSUME NEW id \in Nat, NEW r \in Nat
  PROVE  PastBlock(id, r) \in 0..id
<1>1. PICK d \in Nat \ {0} : d = 2 ^ r
  BY PowerPositive
<1>2. PastBlock(id, r) = IF id > d THEN id - d + 1 ELSE 0
  BY <1>1 DEF PastBlock
<1>. QED  BY <1>1, <1>2

(* The block retrievePastBlock goes back to, when a retry agrees.           *)
LEMMA RetryFacts ==
  ASSUME IInv, Retries # {}
  PROVE  /\ Min(Retries) \in Retries /\ Min(Retries) \in 0..MaxRetrieveExponent
         /\ PastBlock(verified, Min(Retries)) \in 0..verified
         /\ Agrees(PastBlock(verified, Min(Retries)))
<1>1. MaxRetrieveExponent \in Nat /\ verified \in Nat
  BY L1Facts, DriverAssumption DEF IInv, DriverAssumption
<1>2. Retries \in SUBSET (0..MaxRetrieveExponent)
  BY DEF Retries
<1>3. Min(Retries) \in Retries
  BY <1>1, <1>2, LeastExists
<1>4. PICK r \in Nat : r = Min(Retries)
  <2>1. PICK r \in Retries : r = Min(Retries)
    BY <1>3, Zenon
  <2>2. r \in Nat
    BY <1>1, <1>2
  <2>. QED  BY <2>1, <2>2, Zenon
<1>5. PICK v \in Nat : v = verified
  BY <1>1
<1>6. PastBlock(v, r) \in 0..v
  BY PastBlockFacts
<1>. QED  BY <1>2, <1>3, <1>4, <1>5, <1>6 DEF Retries

(* Where a header is asked for by its height, L1 has the header or none.    *)
LEMMA HeaderByNumberFacts ==
  ASSUME Types, ChainOK, NEW h \in Nat
  PROVE  HeaderByNumber(h) # NoHeader =>
           /\ HeaderByNumber(h) \in Headers /\ Held(HeaderByNumber(h))
           /\ OnL1(HeaderByNumber(h)) /\ Len(HeaderByNumber(h)) = h
<1> SUFFICES ASSUME HeaderByNumber(h) # NoHeader
             PROVE  /\ HeaderByNumber(h) \in Headers /\ Held(HeaderByNumber(h))
                    /\ OnL1(HeaderByNumber(h)) /\ Len(HeaderByNumber(h)) = h
  OBVIOUS
<1>1. h <= Len(l1) /\ HeaderByNumber(h) = Header(h)
  BY DEF HeaderByNumber
<1>2. h \in 0..Len(l1)
  BY <1>1, L1Facts
<1>. QED  BY <1>1, <1>2, HeaderHeld

(* The height retrievePastBlock asks for.                                   *)
PastHeight(k) ==
  Len(IF k # 0 /\ eeOrigin[k] # None THEN L1Of(eeOrigin[k]) ELSE ProposedIn(k))

(* It is a height.                                                          *)
LEMMA PastHeightFacts ==
  ASSUME IInv, NEW k \in 0..verified
  PROVE  PastHeight(k) \in Nat
<1>1. k = 0 \/ (k \in 1..Len(derived) /\ k \in BlockIDs)
  BY L1Facts, DerivedFacts DEF IInv, BlockIDs
<1>2. CASE k = 0
  <2>1. PastHeight(k) = Len(Genesis)
    BY <1>2 DEF PastHeight, ProposedIn
  <2>. QED  BY <2>1, GenesisHeld DEF IInv
<1>3. CASE k \in 1..Len(derived) /\ k \in BlockIDs /\ k # 0 /\ eeOrigin[k] # None
  BY <1>3, OriginFacts DEF PastHeight
<1>4. CASE k \in 1..Len(derived) /\ k \in BlockIDs /\ k # 0 /\ eeOrigin[k] = None
  <2>1. PastHeight(k) = Len(derived[k].l1)
    BY <1>4 DEF PastHeight, ProposedIn
  <2>2. Len(derived[k].l1) \in 1..Len(l1) /\ Len(l1) \in Nat
    BY <1>4, DerivedFacts, L1Facts DEF IInv
  <2>. QED  BY <2>1, <2>2
<1>. QED  BY <1>1, <1>2, <1>3, <1>4

(* The verdict of retrievePastBlock, when a retry agrees.                   *)
LEMMA RetrieveIs ==
  ASSUME Retries # {}
  PROVE  RetrievePastBlock =
           [reorged |-> TRUE,
            cursor  |-> HeaderByNumber(PastHeight(PastBlock(verified, Min(Retries)))),
            last    |-> PastBlock(verified, Min(Retries))]
BY DEF RetrievePastBlock, PastHeight

(* The verdict of the checks: a held header to go back to, or none.         *)
LEMMA CheckFacts ==
  ASSUME IInv, NEW id \in BlockIDs
  PROVE  /\ CheckReorg(id).last \in 0..MaxBlocks \cup {Nil}
         /\ CheckReorg(id).cursor # None /\ CheckReorg(id).cursor # NoHeader =>
              CheckReorg(id).cursor \in Headers /\ Held(CheckReorg(id).cursor)
<1>1. /\ id \in 1..MaxBlocks /\ MaxBlocks \in Nat /\ verified \in 0..MaxBlocks
      /\ verified \in Nat
  BY L1Facts, DerivedFacts DEF IInv, BlockIDs
<1>2. Genesis \in Headers /\ Held(Genesis)
  BY GenesisHeld DEF IInv
<1>3. CASE Len(eeHead) < verified
  BY <1>3 DEF CheckReorg, NotReorged
<1>4. CASE ~(Len(eeHead) < verified) /\ 0 \in Retries
  <2>1. PICK n \in Nat : n = id - 1
    BY <1>1
  <2>2. StopsAt(n) \in 0..n
    BY StopsAtIs
  <2>3. PICK k \in 0..n : k = StopsAt(n)
    BY <2>2
  <2>4. /\ CheckReorg(id).cursor = IF k = 0 THEN Genesis
                                   ELSE IF eeOrigin[k] = None THEN None ELSE L1Of(eeOrigin[k])
        /\ CheckReorg(id).last = IF k = 0 \/ eeOrigin[k] = None THEN Nil ELSE k
    BY <1>4, <2>1, <2>3 DEF CheckReorg, CheckL1Reorg
  <2>5. k = 0 \/ k \in BlockIDs
    BY <1>1, <2>1 DEF BlockIDs
  <2>6. CASE k = 0
    BY <1>2, <2>4, <2>6
  <2>7. CASE k \in BlockIDs /\ k # 0
    <3>1. eeOrigin[k] # None => L1Of(eeOrigin[k]) \in Headers /\ Held(L1Of(eeOrigin[k]))
      BY <2>7, OriginFacts
    <3>2. k \in 0..MaxBlocks
      BY <1>1, <2>1
    <3>. QED  BY <2>4, <2>7, <3>1, <3>2
  <2>. QED  BY <2>5, <2>6, <2>7
<1>5. CASE ~(Len(eeHead) < verified) /\ 0 \notin Retries /\ Retries = {}
  BY <1>1, <1>2, <1>5 DEF CheckReorg, RetrievePastBlock
<1>6. CASE ~(Len(eeHead) < verified) /\ 0 \notin Retries /\ Retries # {}
  <2>1. PICK k \in 0..verified : k = PastBlock(verified, Min(Retries))
    BY <1>6, RetryFacts
  <2>2. PICK h \in Nat : h = PastHeight(k)
    BY PastHeightFacts
  <2>3. CheckReorg(id) = [reorged |-> TRUE, cursor |-> HeaderByNumber(h), last |-> k]
    BY <1>6, <2>1, <2>2, RetrieveIs DEF CheckReorg
  <2>4. k \in 0..MaxBlocks
    BY <1>1
  <2>. QED  BY <2>3, <2>4, HeaderByNumberFacts DEF IInv
<1>. QED  BY <1>3, <1>4, <1>5, <1>6

(* A reorg is found: a restart, another try or a reset.                     *)
LEMMA DetectReorgKeeps ==
  ASSUME IInv, L1Keeps, DetectReorg
  PROVE  IInv'
<1>1. iter.events # <<>> /\ pc = "iter" /\ UNCHANGED <<l1Vars, eeVars, faults>>
  BY DEF DetectReorg, AtEvent
<1>2. PICK id \in BlockIDs : id = Event.id
  BY <1>1, EventFacts, ProposalFacts
<1>3. \/ Restart
      \/ /\ pc' = "read"
         /\ UNCHANGED <<l1Head, l1Current, lastInserted, tracker, iter, syncNotify>>
      \/ /\ CheckReorg(id).cursor # None /\ CheckReorg(id).cursor # NoHeader
         /\ l1Current' = CheckReorg(id).cursor /\ lastInserted' = CheckReorg(id).last
         /\ pc' = "process" /\ iter' = NoIter
         /\ UNCHANGED <<l1Head, tracker, syncNotify>>
  BY <1>2 DEF DetectReorg
<1>4. CASE Restart
  <2>1. faults' \in 0..MaxFaults
    BY <1>1 DEF IInv, Types, LoopTypes
  <2>. QED  BY <1>1, <1>4, <2>1, RestartKeeps
<1>5. CASE /\ pc' = "read"
           /\ UNCHANGED <<l1Head, l1Current, lastInserted, tracker, iter, syncNotify>>
  <2>1. HeadersHeld'
    BY <1>5, HeadersStay
  <2>2. LoopTypes'
    BY <1>1, <1>5 DEF IInv, Types, LoopTypes
  <2>. QED  BY <1>1, <1>5, <2>1, <2>2, LoopStep
<1>6. CASE /\ CheckReorg(id).cursor # None /\ CheckReorg(id).cursor # NoHeader
           /\ l1Current' = CheckReorg(id).cursor /\ lastInserted' = CheckReorg(id).last
           /\ pc' = "process" /\ iter' = NoIter
           /\ UNCHANGED <<l1Head, tracker, syncNotify>>
  <2>1. /\ l1Current' \in Headers /\ Held(l1Current')
        /\ lastInserted' \in 0..MaxBlocks \cup {Nil}
    BY <1>6, CheckFacts
  <2>2. /\ iter'.events = <<>> /\ iter'.end = Genesis
        /\ iter' \in [cur : 0..MaxL1Height, end : Headers, batch : 0..MaxL1Height,
                      events : Seq(Proposal)]
    <3>1. <<>> \in Seq(Proposal) /\ 0 \in 0..MaxL1Height /\ Genesis \in Headers
      BY GenesisHeld, L1Facts DEF IInv
    <3>. QED  BY <1>6, <3>1 DEF NoIter
  <2>3. HeadersHeld'
    <3>1. PICK a, b, c : a = l1Head /\ b = l1Current' /\ c = Genesis
      OBVIOUS
    <3>2. Held(a) /\ Held(b) /\ Held(c)
      BY <2>1, <3>1, GenesisHeld DEF IInv, HeadersHeld
    <3>. QED  BY <1>6, <2>2, <3>1, <3>2, HeadersKept
  <2>4. LoopTypes'
    BY <1>1, <1>6, <2>1, <2>2 DEF IInv, Types, LoopTypes
  <2>. QED  BY <1>1, <1>6, <2>2, <2>3, <2>4, LoopStep
<1>. QED  BY <1>3, <1>4, <1>5, <1>6

-----------------------------------------------------------------------------
(* The invariant *)

(* The node joins a chain whose proposals are numbered.                     *)
LEMMA JoinedFacts ==
  ASSUME Joined, forks = 0
  PROVE  l1 \in Headers /\ derived \in Blocks /\ ChainOK
<1>1. /\ MaxBlocks \in Nat /\ MaxL1Height \in Nat \ {0} /\ MaxReorgs \in Nat
      /\ ProposalCounts \subseteq Nat /\ ProposalCounts # {}
  BY DriverAssumption DEF DriverAssumption
<1>2. CASE l1 = <<>> /\ derived = <<>>
  <2>1. /\ <<>> \in Seq(0..MaxReorgs) /\ <<>> \in Seq(Proposal) /\ Len(<<>>) = 0
    OBVIOUS
  <2>2. l1 \in Headers /\ derived \in Blocks
    BY <1>1, <1>2, <2>1 DEF Headers, Blocks
  <2>3. Len(l1) = 0 /\ Len(derived) = 0
    BY <1>2
  <2>. QED  BY <2>2, <2>3 DEF ChainOK
<1>3. CASE l1 = <<0>> /\ derived = ProposedAt(<<0>>, 0, Max(Proposals(0)))
  <2>1. <<0>> \in Headers /\ Len(<<0>>) = 1 /\ <<0>>[1] = 0 /\ <<0>> # <<>> /\ <<0>> \in Seq(Int)
    BY <1>1 DEF Headers
  <2>2. PICK n : n = Max(Proposals(0))
    OBVIOUS
  <2>3. n \in 0..MaxBlocks
    <3>1. 0 \in 0..MaxBlocks
      BY <1>1
    <3>2. \A x \in Proposals(0) : x \in Nat /\ 0 + x <= MaxBlocks
      BY <3>1, ProposalsFacts
    <3>3. Proposals(0) \in SUBSET (0..MaxBlocks)
      <4>1. \A x \in Proposals(0) : x \in 0..MaxBlocks
        BY <1>1, <3>2
      <4>. QED  BY <4>1
    <3>4. Proposals(0) # {}
      BY <1>1 DEF Proposals
    <3>. QED  BY <1>1, <2>2, <3>3, <3>4, GreatestExists
  <2>4. \A k \in 1..n : [id |-> 0 + k, l1 |-> <<0>>] \in Proposal
    BY <1>1, <2>1, <2>3 DEF Proposal, BlockIDs
  <2>5. /\ derived \in [1..n -> Proposal]
        /\ \A k \in 1..n : derived[k] = [id |-> 0 + k, l1 |-> <<0>>]
    BY <1>3, <2>2, <2>4 DEF ProposedAt
  <2>6. derived \in Seq(Proposal) /\ Len(derived) = n
    BY <2>3, <2>5, FunctionIsSeq
  <2>7. derived \in Blocks
    BY <1>1, <2>3, <2>6 DEF Blocks
  <2>8. OnL1(<<0>>)
    <3>1. l1 \in Seq(Int) /\ <<0>> \in Seq(Int) /\ Len(<<0>>) <= Len(l1)
          /\ \A k \in 1..Len(<<0>>) : <<0>>[k] = l1[k]
      BY <1>3, <2>1
    <3>. QED  BY ONLY <3>1, PrefixIs DEF OnL1
  <2>9. \A k \in 1..n : derived[k].id = k /\ derived[k].l1 = <<0>>
    BY <2>3, <2>5
  <2>10. \A k \in 1..Len(l1) : l1[k] <= forks
    BY <1>3, <2>1
  <2>11. ASSUME NEW k \in 1..Len(derived)
         PROVE  /\ derived[k].id = k /\ derived[k].l1 # <<>> /\ OnL1(derived[k].l1)
                /\ \A m \in 1..k : Len(derived[m].l1) <= Len(derived[k].l1)
    <3>1. n \in Nat /\ k \in 1..n /\ \A m \in 1..k : m \in 1..n
      BY <1>1, <2>3, <2>6
    <3>2. derived[k].id = k /\ derived[k].l1 = <<0>>
      BY <2>9, <3>1
    <3>3. \A m \in 1..k : derived[m].l1 = <<0>>
      BY <2>9, <3>1
    <3>4. PICK one : one = <<0>>
      OBVIOUS
    <3>5. Len(one) = 1 /\ one # <<>> /\ OnL1(one)
      BY <2>1, <2>8, <3>4
    <3>6. derived[k].l1 = one /\ \A m \in 1..k : derived[m].l1 = one
      BY <3>2, <3>3, <3>4
    <3>7. \A m \in 1..k : Len(derived[m].l1) <= Len(derived[k].l1)
      <4>1. 1 <= 1
        OBVIOUS
      <4>. QED  BY ONLY <3>5, <3>6, <4>1
    <3>. QED  BY ONLY <3>2, <3>5, <3>6, <3>7
  <2>. QED  BY <1>3, <2>1, <2>7, <2>10, <2>11 DEF ChainOK
<1>. QED  BY <1>2, <1>3 DEF Joined

(* The invariant holds at first.                                            *)
LEMMA InitHolds == Init => IInv
<1> SUFFICES ASSUME Init  PROVE IInv
  OBVIOUS
<1>1. /\ MaxBlocks \in Nat /\ MaxL1Height \in Nat /\ MaxReorgs \in Nat /\ MaxFaults \in Nat
  BY DriverAssumption DEF DriverAssumption
<1>2. l1 \in Headers /\ derived \in Blocks /\ ChainOK
  BY JoinedFacts DEF Init
<1>3. L1Types
  <2>1. verified = Len(derived) /\ Len(derived) \in Nat
    BY <1>2, BlockFacts DEF Init
  <2>2. verified \in 0..Len(derived)
    BY <2>1
  <2>. QED  BY <1>1, <1>2, <2>2 DEF L1Types, Init
<1>4. <<>> \in Blocks /\ Len(<<>>) = 0 /\ Genesis \in Headers
  <2>1. <<>> \in Seq(Proposal) /\ <<>> \in Seq(0..MaxReorgs) /\ Len(<<>>) = 0
    OBVIOUS
  <2>. QED  BY <1>1, <2>1 DEF Blocks, Headers, Genesis
<1>5. EngineTypes
  BY <1>4 DEF EngineTypes, Init, Genesis
<1>6. l1Head \in Headers /\ l1Head = l1
  <2>1. l1 \in Seq(Int)
    BY <1>2, HeaderFacts
  <2>. QED  BY <1>2, <2>1, SubSeqFull DEF Init, Header
<1>7. /\ iter.events = <<>> /\ iter.end = Genesis
      /\ iter \in [cur : 0..MaxL1Height, end : Headers, batch : 0..MaxL1Height,
                   events : Seq(Proposal)]
  <2>1. <<>> \in Seq(Proposal) /\ 0 \in 0..MaxL1Height
    BY <1>1
  <2>. QED  BY <1>4, <2>1 DEF Init, NoIter
<1>8. LoopTypes
  BY <1>1, <1>4, <1>6, <1>7 DEF LoopTypes, Init, NewTracker
<1>9. Types
  BY <1>3, <1>5, <1>8 DEF Types
<1>10. HeadersHeld
  <2>1. l1 \in Seq(Int) /\ OnL1(l1)
    <3>1. l1 \in Seq(Int) /\ Len(l1) <= Len(l1)
      BY <1>9, <1>2, L1Facts
    <3>. QED  BY <3>1, PrefixIs DEF OnL1
  <2>2. Held(l1)
    BY <1>2, <1>9, <2>1, OnL1Held
  <2>. QED  BY <1>2, <1>6, <1>7, <1>9, <2>2, GenesisHeld DEF HeadersHeld, Init
<1>11. Events = {} /\ EventsOrdered
  <2>1. Len(iter.events) = 0
    BY <1>7
  <2>. QED  BY <2>1 DEF Events, EventsOrdered
<1>12. Inside = {}
  <2>1. \A b \in EngineBlocks : Len(b) = 0
    BY <1>4 DEF EngineBlocks, Init, NewTracker, Genesis
  <2>. QED  BY <2>1 DEF Inside
<1>. QED  BY <1>2, <1>9, <1>10, <1>11, <1>12
          DEF IInv, ProposalsSound, ReadLater, Recorded

(* Each step keeps what L1 must.                                            *)
LEMMA L1Moves ==
  ASSUME IInv, [Next]_vars
  PROVE  L1Keeps
<1>1. Types /\ ChainOK
  BY DEF IInv
<1>2. Mine \/ Reorg \/ Verify \/ UNCHANGED l1Vars
  BY DEF Next, DriverStep, vars, EngineSynced, NewL1Head, TrackTimeout, TriggerBeaconSync,
         StartBlockSync, OpenIterator, ReadBatch, DetectReorg, SkipEvent, ParentMissing,
         BuildPayload, InsertHead, CallFails, Crash
<1>. QED  BY <1>1, <1>2, MineKeeps, ReorgKeeps, VerifyKeeps, SameChainKeeps

(* Each step keeps the invariant.                                           *)
LEMMA StepHolds == IInv /\ [Next]_vars => IInv'
<1> SUFFICES ASSUME IInv, [Next]_vars  PROVE IInv'
  OBVIOUS
<1>1. L1Keeps
  BY L1Moves
<1>2. CASE Mine
  BY <1>1, <1>2, L1Step DEF Mine
<1>3. CASE Reorg
  BY <1>1, <1>3, L1Step DEF Reorg
<1>4. CASE Verify
  BY <1>1, <1>4, L1Step DEF Verify
<1>5. CASE EngineSynced
  BY <1>1, <1>5, EngineSyncedKeeps
<1>6. CASE NewL1Head
  BY <1>1, <1>6, NewL1HeadKeeps
<1>7. CASE TrackTimeout
  BY <1>1, <1>7, TrackTimeoutKeeps
<1>8. CASE TriggerBeaconSync
  BY <1>1, <1>8, TriggerBeaconSyncKeeps
<1>9. CASE StartBlockSync
  BY <1>1, <1>9, StartBlockSyncKeeps
<1>10. CASE OpenIterator
  BY <1>1, <1>10, OpenIteratorKeeps
<1>11. CASE ReadBatch
  BY <1>1, <1>11, ReadBatchKeeps
<1>12. CASE DetectReorg
  BY <1>1, <1>12, DetectReorgKeeps
<1>13. CASE SkipEvent
  BY <1>1, <1>13, SkipEventKeeps
<1>14. CASE ParentMissing
  BY <1>1, <1>14, ParentMissingKeeps
<1>15. CASE BuildPayload
  BY <1>1, <1>15, BuildPayloadKeeps
<1>16. CASE InsertHead
  BY <1>1, <1>16, InsertHeadKeeps
<1>17. CASE CallFails
  BY <1>1, <1>17, CallFailsKeeps
<1>18. CASE Crash
  BY <1>1, <1>18, CrashKeeps
<1>19. CASE UNCHANGED vars
  BY <1>1, <1>19, L1Step DEF vars
<1>. QED  BY <1>2, <1>3, <1>4, <1>5, <1>6, <1>7, <1>8, <1>9, <1>10, <1>11, <1>12, <1>13,
             <1>14, <1>15, <1>16, <1>17, <1>18, <1>19 DEF Next, DriverStep

(* The invariant holds in every behaviour.                                  *)
LEMMA Invariant == Spec => []IInv
BY InitHolds, StepHolds, PTL DEF Spec

(* The driver's cursors are L1 headers and everything the engine holds is an *)
(* L2 block, each L1Origin under its own block ID (State, ChainSyncer,       *)
(* L1Origin), whatever L1, the engine, crashes and failed calls do.          *)
THEOREM TypeCorrect == Spec => []TypeOK
<1>1. IInv => TypeOK
  BY DEF IInv, Types, L1Types, EngineTypes, LoopTypes, TypeOK
<1>. QED  BY <1>1, Invariant, PTL

-----------------------------------------------------------------------------
(* One L1 history *)

(* When the checks pass and no beacon sync is under way, the walk from the  *)
(* parent's number ends there.                                              *)
LEMMA ChecksPassed ==
  ASSUME IInv, NEW id \in BlockIDs, Len(eeHead) >= verified, ~CheckReorg(id).reorged
  PROVE  WalkStops(id - 1)
<1>1. Len(eeHead) \in Nat /\ verified \in Nat
  BY BlockFacts, L1Facts DEF IInv, Types, EngineTypes
<1>2. ~(Len(eeHead) < verified)
  BY <1>1
<1>3. 0 \in Retries
  BY <1>2 DEF CheckReorg, RetrievePastBlock
<1>4. PICK n \in Nat : n = id - 1
  BY DriverAssumption DEF BlockIDs, DriverAssumption
<1>5. StopsAt(n) = n
  BY <1>2, <1>3, <1>4 DEF CheckReorg, CheckL1Reorg
<1>. QED  BY <1>4, <1>5, StopsAtIs

(* The parent of a payload is on the event's L1 history.                    *)
LEMMA ParentOnHistory ==
  ASSUME IInv, BuildPayload, Len(eeHead) >= verified, ~tracker.triggered, Numbered
  PROVE  eeHead' = Genesis \/ IsPrefix(L1Of(eeHead'), Event.l1)
<1>1. /\ iter.events # <<>> /\ HasParent(Event.id) /\ eeHead' = Parent(Event.id)
      /\ ~CheckReorg(Event.id).reorged
  BY DEF BuildPayload, AtEvent, ReorgSeen
<1>2. /\ Event \in Events /\ Event.id \in BlockIDs /\ Event.id \in 1..MaxBlocks
      /\ MaxBlocks \in Nat /\ Event.id \in Nat
  BY <1>1, EventFacts, ProposalFacts
<1>3. WalkStops(Event.id - 1)
  <2>1. PICK id \in BlockIDs : id = Event.id
    BY <1>2
  <2>. QED  BY <1>1, <2>1, ChecksPassed
<1>4. CASE Event.id = 1
  BY <1>1, <1>4 DEF Parent
<1>5. CASE Event.id # 1
  <2>1. PICK n \in BlockIDs : n = Event.id - 1
    BY <1>2, <1>5 DEF BlockIDs
  <2>2. n \in Nat \ {0} /\ n < Event.id
    BY <1>2, <1>5, <2>1
  <2>3. ASSUME NEW p \in Inside, p.id = n, OnL1(p.l1)
        PROVE  IsPrefix(p.l1, Event.l1)
    BY <1>2, <2>2, <2>3 DEF IInv, ReadLater, Precedes
  <2>4. CASE eeOrigin[n] # None
    <3>1. eeHead' = eeOrigin[n] /\ OnL1(L1Of(eeOrigin[n]))
      BY <1>1, <1>3, <1>5, <2>1, <2>2, <2>4 DEF Parent, WalkStops
    <3>2. Last(eeOrigin[n]) \in Inside /\ Last(eeOrigin[n]).id = n
      BY <2>4, OriginFacts
    <3>3. OnL1(Last(eeOrigin[n]).l1)
      BY <3>1 DEF L1Of
    <3>4. IsPrefix(Last(eeOrigin[n]).l1, Event.l1)
      BY <2>3, <3>2, <3>3
    <3>. QED  BY <3>1, <3>4 DEF L1Of
  <2>5. CASE eeOrigin[n] = None
    <3>1. eeHead \in Blocks /\ eeHead # None /\ eeHead \in Seq(Proposal) /\ Len(eeHead) \in Nat
      BY BlockFacts DEF IInv, Types, EngineTypes
    <3>2. eeHead' = SubSeq(eeHead, 1, n) /\ n \in 1..Len(eeHead) /\ n \in 0..Len(eeHead)
      <4>1. Event.id > 1
        BY <1>2, <1>5
      <4>2. Len(eeHead) >= n
        BY <1>1, <2>1, <2>5, <4>1 DEF HasParent
      <4>3. eeHead' = SubSeq(eeHead, 1, n)
        BY <1>1, <1>5, <2>1, <2>5 DEF Parent, Canonical
      <4>. QED  BY <2>2, <3>1, <4>2, <4>3
    <3>3. PICK p : p = eeHead[n]
      OBVIOUS
    <3>4. Last(eeHead') = p
      <4>1. Len(SubSeq(eeHead, 1, n)) = n /\ SubSeq(eeHead, 1, n)[n] = eeHead[n]
        BY <3>1, <3>2, <2>2, FirstElements
      <4>. QED  BY <3>2, <3>3, <4>1 DEF Last
    <3>5. p \in Inside /\ p.id = n
      BY <3>1, <3>2, <3>3, BlocksInside DEF Numbered
    <3>6. n <= verified /\ derived[n] = p
      BY <2>5, <3>5 DEF IInv, Recorded, Certain
    <3>7. n \in 1..Len(derived)
      <4>1. verified \in 0..Len(derived) /\ Len(derived) \in Nat /\ verified \in Nat
        BY L1Facts, DerivedFacts DEF IInv
      <4>. QED  BY <2>2, <3>6, <4>1
    <3>8. OnL1(p.l1)
      BY <3>6, <3>7 DEF IInv, ChainOK
    <3>9. IsPrefix(p.l1, Event.l1)
      BY <2>3, <3>5, <3>8
    <3>. QED  BY <3>4, <3>9 DEF L1Of
  <2>. QED  BY <2>4, <2>5
<1>. QED  BY <1>4, <1>5

(* No mixed forks: whenever the reorg checks are made on a numbered chain,  *)
(* the payload is built on a block of the event's own L1 history            *)
(* (onBlockProposed, checkReorg, L2ParentByBlockID). What was read from L1  *)
(* before a reorg never outlives the checks: a block off L1 never comes     *)
(* back, and one still on L1 when the event was read is below it.           *)
THEOREM NoMixedForks == Spec => OneHistory
<1>1. ASSUME IInv, [Next]_vars,
             pc = "iter", pc' = "built", Len(eeHead) >= verified, ~tracker.triggered, Numbered
      PROVE  eeHead' = Genesis \/ IsPrefix(L1Of(eeHead'), Event.l1)
  <2>1. BuildPayload
    BY <1>1 DEF Next, DriverStep, vars, driverVars, Mine, Reorg, Verify, EngineSynced,
       NewL1Head, TrackTimeout, TriggerBeaconSync, StartBlockSync, OpenIterator, ReadBatch,
       DetectReorg, Restart, SkipEvent, Handled, ParentMissing, InsertHead, CallFails, Crash
  <2>. QED  BY <1>1, <2>1, ParentOnHistory
<1>2. IInv /\ [Next]_vars =>
        [ (/\ pc = "iter" /\ pc' = "built"
           /\ Len(eeHead) >= verified /\ ~tracker.triggered /\ Numbered) =>
            eeHead' = Genesis \/ IsPrefix(L1Of(eeHead'), Event.l1) ]_vars
  BY <1>1
<1>. QED  BY <1>2, Invariant, PTL DEF Spec, OneHistory

-----------------------------------------------------------------------------
(* A reset loses nothing *)

(* A block of one fork whose last L1 block is on L1 is what L1 derives.     *)
LEMMA OneForkDerived ==
  ASSUME IInv, NEW b \in Blocks, b # <<>>, OneFork(b), OnL1(L1Of(b)),
         \A k \in 1..Len(b) : b[k] \in Inside
  PROVE  /\ Len(b) \in 1..Len(derived) /\ IsPrefix(b, derived)
         /\ \A k \in 1..Len(b) : derived[k] = b[k]
<1>1. b \in Seq(Proposal) /\ Len(b) \in Nat \ {0} /\ Last(b) = b[Len(b)]
      /\ derived \in Seq(Proposal) /\ Len(derived) \in Nat /\ l1 \in Seq(Int)
  BY BlockFacts, EmptySeq, DerivedFacts, L1Facts DEF Last, IInv
<1>2. \A k \in 1..Len(b) : b[k].id = k /\ b[k].l1 \in Seq(Int) /\ Sound(b[k])
  <2>1. \A k \in 1..Len(b) : b[k] \in Proposal /\ b[k].id = k /\ Sound(b[k])
    BY BlockFacts DEF OneFork, IInv, ProposalsSound
  <2>. QED  BY <2>1, ProposalFacts
<1>3. \A k \in 1..Len(b) : OnL1(b[k].l1)
  <2> DEFINE Off == {k \in 1..Len(b) : ~OnL1(b[k].l1)}
  <2> SUFFICES ASSUME Off # {}  PROVE FALSE
    OBVIOUS
  <2>1. Off \in SUBSET (0..Len(b))
    BY <1>1
  <2>2. PICK j \in Off : \A y \in Off : y <= j
    <3> HIDE DEF Off
    <3>. QED  BY <1>1, <2>1, GreatestExists
  <2>3. j # Len(b)
    BY <1>1, <2>2 DEF L1Of
  <2>4. j \in Nat /\ j + 1 \in 1..Len(b) /\ j + 1 \notin Off
    BY <1>1, <2>2, <2>3
  <2>5. OnL1(b[j + 1].l1)
    BY <2>4
  <2>6. IsPrefix(b[j].l1, b[j + 1].l1)
    <3>1. j + 1 > 1 /\ (j + 1) - 1 = j
      BY <2>2, <2>4
    <3>. QED  BY <2>4, <3>1 DEF OneFork
  <2>7. b[j].l1 \in Seq(Int) /\ b[j + 1].l1 \in Seq(Int)
    BY <1>2, <2>2, <2>4
  <2>8. OnL1(b[j].l1)
    BY <1>1, <2>5, <2>6, <2>7, PrefixTransitive DEF OnL1
  <2>. QED  BY <2>2, <2>8
<1>4. \A k \in 1..Len(b) : k <= Len(derived) /\ derived[k] = b[k]
  BY <1>2, <1>3 DEF Sound
<1>5. Len(b) \in 1..Len(derived)
  BY <1>1, <1>4
<1>6. IsPrefix(b, derived)
  <2>1. Len(b) <= Len(derived) /\ \A k \in 1..Len(b) : b[k] = derived[k]
    BY <1>1, <1>4, <1>5
  <2>. QED  BY <1>1, <2>1, PrefixIs
<1>. QED  BY <1>4, <1>5, <1>6

(* What a reset to a cursor and a last inserted block ID keeps.             *)
Kept(cursor, last) ==
  /\ OnL1(cursor)
  /\ last \in BlockIDs =>
       \/ eeOrigin[last] # None /\ IsPrefix(eeOrigin[last], derived)
       \/ Len(eeHead) >= last /\ IsPrefix(Canonical(last), derived)
  /\ \A id \in 1..Len(derived) : id > last => Len(derived[id].l1) >= Len(cursor)

(* A cursor at the proposal of the last inserted block.                     *)
LEMMA CursorAtProposal ==
  ASSUME IInv, NEW k \in 1..Len(derived), NEW id \in 1..Len(derived), id > k
  PROVE  Len(derived[id].l1) >= Len(derived[k].l1)
<1>1. k \in 1..id
  BY DerivedFacts DEF IInv
<1>2. Len(derived[k].l1) <= Len(derived[id].l1)
  BY <1>1 DEF IInv, ChainOK
<1>3. Len(derived[k].l1) \in Int /\ Len(derived[id].l1) \in Int
  BY DerivedFacts DEF IInv
<1>. QED  BY <1>2, <1>3

(* A reset to genesis loses nothing.                                        *)
LEMMA KeptAtGenesis ==
  ASSUME IInv
  PROVE  Kept(Genesis, Nil) /\ Kept(Genesis, 0)
<1>1. OnL1(Genesis) /\ Len(Genesis) = 0
  BY GenesisHeld DEF IInv
<1>2. Nil \notin BlockIDs /\ 0 \notin BlockIDs
  BY DriverAssumption DEF DriverAssumption, BlockIDs, Nil
<1>3. \A id \in 1..Len(derived) : Len(derived[id].l1) >= 0
  <2> TAKE id \in 1..Len(derived)
  <2>1. Len(derived[id].l1) \in 1..Len(l1) /\ Len(l1) \in Nat
    BY DerivedFacts, L1Facts DEF IInv
  <2>. QED  BY <2>1
<1>. QED  BY <1>1, <1>2, <1>3 DEF Kept

(* CheckL1Reorg: the block it stops at is what L1 derives.                  *)
LEMMA WalkLosesNothing ==
  ASSUME IInv, OriginsAgree, NEW n \in Nat, n <= MaxBlocks, CheckL1Reorg(n).cursor # None
  PROVE  Kept(CheckL1Reorg(n).cursor, CheckL1Reorg(n).last)
<1>1. PICK k \in 0..n : k = StopsAt(n)
  BY StopsAtIs
<1>2. WalkStops(k)
  BY <1>1, StopsAtIs
<1>3. /\ CheckL1Reorg(n).cursor = IF k = 0 THEN Genesis
                                  ELSE IF eeOrigin[k] = None THEN None ELSE L1Of(eeOrigin[k])
      /\ CheckL1Reorg(n).last = IF k = 0 \/ eeOrigin[k] = None THEN Nil ELSE k
  BY <1>1 DEF CheckL1Reorg
<1>4. CASE k = 0
  BY <1>3, <1>4, KeptAtGenesis
<1>5. CASE k # 0
  <2>1. k \in BlockIDs /\ eeOrigin[k] # None
    BY <1>3, <1>5, L1Facts DEF BlockIDs, IInv
  <2>2. CheckL1Reorg(n).cursor = L1Of(eeOrigin[k]) /\ CheckL1Reorg(n).last = k
    BY <1>3, <1>5, <2>1
  <2>3. PICK b \in Blocks : b = eeOrigin[k]
    BY <2>1, OriginFacts
  <2>4. /\ b # <<>> /\ OnL1(L1Of(b)) /\ OneFork(b) /\ \A i \in 1..Len(b) : b[i] \in Inside
        /\ Last(b).id = k /\ Last(b) = b[Len(b)] /\ Len(b) \in Nat \ {0}
    BY <1>2, <1>5, <2>1, <2>3, OriginFacts DEF WalkStops, OriginsAgree, IInv, Types, EngineTypes
  <2>5. /\ Len(b) \in 1..Len(derived) /\ IsPrefix(b, derived)
        /\ \A i \in 1..Len(b) : derived[i] = b[i]
    BY <2>4, OneForkDerived
  <2>6. Len(b) = k
    BY <2>4 DEF OneFork
  <2>7. k \in 1..Len(derived) /\ derived[k].l1 = L1Of(b)
    BY <2>4, <2>5, <2>6 DEF L1Of
  <2>8. \A id \in 1..Len(derived) : id > k => Len(derived[id].l1) >= Len(L1Of(b))
    BY <2>7, CursorAtProposal
  <2>. QED  BY <2>1, <2>2, <2>3, <2>4, <2>5, <2>8 DEF Kept
<1>. QED  BY <1>4, <1>5

(* retrievePastBlock: the block that agrees is what L1 derives.             *)
LEMMA RetrieveLosesNothing ==
  ASSUME IInv, OriginsAgree, Retries # {}, Len(eeHead) >= verified,
         RetrievePastBlock.cursor # NoHeader
  PROVE  Kept(RetrievePastBlock.cursor, RetrievePastBlock.last)
<1>1. PICK k \in 0..verified : k = PastBlock(verified, Min(Retries)) /\ Agrees(k)
  BY RetryFacts
<1>2. PICK h \in Nat : h = PastHeight(k)
  BY PastHeightFacts
<1>3. RetrievePastBlock = [reorged |-> TRUE, cursor |-> HeaderByNumber(h), last |-> k]
  BY <1>1, <1>2, RetrieveIs
<1>4. OnL1(HeaderByNumber(h)) /\ Len(HeaderByNumber(h)) = h
  BY <1>3, HeaderByNumberFacts DEF IInv
<1>5. /\ verified \in 0..Len(derived) /\ verified \in Nat /\ Len(derived) \in Nat
      /\ eeHead \in Seq(Proposal) /\ Len(eeHead) \in Nat /\ derived \in Seq(Proposal)
      /\ Len(derived) <= MaxBlocks
  BY L1Facts, DerivedFacts, BlockFacts DEF IInv, Types, EngineTypes
<1>6. k \in Nat /\ k \in 0..Len(derived) /\ k \in 0..Len(eeHead) /\ Len(eeHead) >= k
  BY <1>5
<1>7. IsPrefix(Canonical(k), derived)
  BY <1>1, <1>5, <1>6, FirstElements DEF Agrees, DerivedBlock
<1>8. CASE k = 0
  <2>1. h = 0
    BY <1>2, <1>8, GenesisHeld DEF PastHeight, ProposedIn, IInv
  <2>2. k \notin BlockIDs
    BY <1>8, DriverAssumption DEF DriverAssumption, BlockIDs
  <2>3. \A id \in 1..Len(derived) : Len(derived[id].l1) >= 0
    <3> TAKE id \in 1..Len(derived)
    <3>1. Len(derived[id].l1) \in 1..Len(l1) /\ Len(l1) \in Nat
      BY DerivedFacts, L1Facts DEF IInv
    <3>. QED  BY <3>1
  <2>. QED  BY <1>3, <1>4, <2>1, <2>2, <2>3 DEF Kept
<1>9. CASE k # 0
  <2>1. k \in 1..Len(derived) /\ k \in BlockIDs /\ k \in 1..Len(eeHead)
    BY <1>5, <1>6, <1>9, L1Facts DEF BlockIDs, IInv
  <2>2. eeHead[k] = derived[k]
    <3>1. /\ SubSeq(eeHead, 1, k)[k] = eeHead[k] /\ SubSeq(derived, 1, k)[k] = derived[k]
      BY <1>5, <1>6, <2>1, FirstElements
    <3>. QED  BY <1>1, <3>1 DEF Agrees, Canonical, DerivedBlock
  <2>3. OnL1(derived[k].l1)
    BY <2>1 DEF IInv, ChainOK
  <2>4. h = Len(derived[k].l1)
    <3>1. CASE eeOrigin[k] # None
      <4>1. L1Of(eeOrigin[k]) = eeHead[k].l1
        BY <2>1, <2>2, <2>3, <3>1 DEF OriginsAgree
      <4>. QED  BY <1>2, <1>9, <2>2, <3>1, <4>1 DEF PastHeight
    <3>2. CASE eeOrigin[k] = None
      BY <1>2, <1>9, <3>2 DEF PastHeight, ProposedIn
    <3>. QED  BY <3>1, <3>2
  <2>5. \A id \in 1..Len(derived) : id > k => Len(derived[id].l1) >= h
    BY <2>1, <2>4, CursorAtProposal
  <2>. QED  BY <1>3, <1>4, <1>6, <1>7, <2>5 DEF Kept
<1>. QED  BY <1>8, <1>9

(* The reset of onBlockProposed.                                            *)
LEMMA ResetKeeps ==
  ASSUME IInv, DetectReorg, pc' = "process", OriginsAgree, Retries # {}
  PROVE  Kept(l1Current', lastInserted')
<1>1. PICK id \in BlockIDs : id = Event.id
  BY EventFacts, ProposalFacts DEF DetectReorg, AtEvent
<1>2. /\ CheckReorg(id).reorged
      /\ CheckReorg(id).cursor # None /\ CheckReorg(id).cursor # NoHeader
      /\ l1Current' = CheckReorg(id).cursor /\ lastInserted' = CheckReorg(id).last
  BY <1>1 DEF DetectReorg, ReorgSeen, Restart
<1>3. Len(eeHead) \in Nat /\ verified \in Nat /\ MaxBlocks \in Nat
  BY BlockFacts, L1Facts DEF IInv, Types, EngineTypes
<1>4. ~(Len(eeHead) < verified) /\ Len(eeHead) >= verified
  BY <1>2, <1>3 DEF CheckReorg, NotReorged
<1>5. CASE 0 \in Retries
  <2>1. PICK n \in Nat : n = id - 1 /\ n <= MaxBlocks
    BY <1>3 DEF BlockIDs
  <2>2. CheckReorg(id) = CheckL1Reorg(n)
    BY <1>4, <1>5, <2>1 DEF CheckReorg
  <2>. QED  BY <1>2, <2>1, <2>2, WalkLosesNothing
<1>6. CASE 0 \notin Retries
  <2>1. CheckReorg(id) = RetrievePastBlock
    BY <1>4, <1>6 DEF CheckReorg
  <2>. QED  BY <1>2, <1>4, <2>1, RetrieveLosesNothing
<1>. QED  BY <1>5, <1>6

(* A reset of the cursor loses nothing: it is on L1, what counts as         *)
(* inserted is in the engine as L1 derives it, and all later proposals are  *)
(* at the cursor or above (CheckL1Reorg, retrievePastBlock).                *)
THEOREM ResetIsSafe == Spec => ResetLosesNothing
<1>1. ASSUME IInv, [Next]_vars, pc = "iter", pc' = "process", OriginsAgree, Retries # {}
      PROVE  Kept(l1Current', lastInserted')
  <2>1. DetectReorg
    BY <1>1 DEF Next, DriverStep, vars, driverVars, Mine, Reorg, Verify, EngineSynced,
       NewL1Head, TrackTimeout, TriggerBeaconSync, StartBlockSync, OpenIterator, ReadBatch,
       Restart, SkipEvent, Handled, ParentMissing, BuildPayload, InsertHead, CallFails, Crash
  <2>. QED  BY <1>1, <2>1, ResetKeeps
<1>2. IInv /\ [Next]_vars =>
        [ (pc = "iter" /\ pc' = "process" /\ OriginsAgree /\ Retries # {}) =>
            /\ OnL1(l1Current')
            /\ lastInserted' \in BlockIDs =>
                 \/ eeOrigin[lastInserted'] # None /\ IsPrefix(eeOrigin[lastInserted'], derived)
                 \/ Len(eeHead) >= lastInserted' /\ IsPrefix(Canonical(lastInserted'), derived)
            /\ \A id \in 1..Len(derived) :
                 id > lastInserted' => Len(derived[id].l1) >= Len(l1Current') ]_vars
  BY <1>1 DEF Kept
<1>. QED  BY <1>2, Invariant, PTL DEF Spec, ResetLosesNothing

-----------------------------------------------------------------------------
(* Without beacon sync *)

NumberedBlock(b) == \A k \in 1..Len(b) : b[k].id = k

(* Nothing but the driver's own insertions fills the engine.                *)
NoBeaconSync ==
  ~P2PSync =>
    /\ ~tracker.triggered /\ tracker.last = None /\ eeTarget = None
    /\ NumberedBlock(eeHead)
    /\ \A id \in BlockIDs : eeOrigin[id] # None => NumberedBlock(eeOrigin[id])

(* The parent of a payload ends right below the event's ID.                 *)
LEMMA PayloadNumbered ==
  ASSUME IInv, NoBeaconSync, BuildPayload, ~P2PSync
  PROVE  /\ NumberedBlock(Parent(Event.id))
         /\ NumberedBlock(Append(Parent(Event.id), Event))
<1>1. /\ iter.events # <<>> /\ AtEvent /\ ~AlreadyInserted /\ HasParent(Event.id)
      /\ ~tracker.triggered
  BY DEF BuildPayload, AtEvent, NoBeaconSync
<1>2. /\ Event.id \in 1..MaxBlocks /\ MaxBlocks \in Nat /\ Event.id \in Nat /\ Event \in Proposal
  BY <1>1, EventFacts, ProposalFacts
<1>3. PICK parent \in Blocks : parent = Parent(Event.id)
  BY <1>1, ParentFacts
<1>4. parent \in Seq(Proposal) /\ Len(parent) \in Nat
  BY BlockFacts
<1>5. NumberedBlock(parent) /\ Len(parent) = Event.id - 1
  <2>1. CASE Event.id = 1
    <3>1. parent = <<>> /\ Len(<<>>) = 0
      BY <1>1, <1>3, <2>1 DEF Parent, Genesis
    <3>. QED  BY <2>1, <3>1 DEF NumberedBlock
  <2>2. CASE Event.id # 1
    <3>1. PICK n \in BlockIDs : n = Event.id - 1
      BY <1>2, <2>2 DEF BlockIDs
    <3>2. n \in Nat \ {0}
      BY <1>2, <2>2, <3>1
    <3>3. CASE eeOrigin[n] # None
      <4>1. parent = eeOrigin[n]
        BY <1>1, <1>3, <2>2, <3>1, <3>3 DEF Parent
      <4>2. Last(parent).id = n /\ Last(parent) = parent[Len(parent)] /\ Len(parent) # 0
        BY <3>3, <4>1, OriginFacts
      <4>3. NumberedBlock(parent)
        BY <3>3, <4>1 DEF NoBeaconSync
      <4>4. Len(parent) = n
        BY <1>4, <4>2, <4>3 DEF NumberedBlock
      <4>. QED  BY <3>1, <4>3, <4>4
    <3>4. CASE eeOrigin[n] = None
      <4>1. parent = SubSeq(eeHead, 1, n)
        BY <1>1, <1>3, <2>2, <3>1, <3>4 DEF Parent, Canonical
      <4>2. Len(eeHead) >= n
        <5>1. Event.id > 1
          BY <1>2, <2>2
        <5>. QED  BY <1>1, <3>1, <3>4, <5>1 DEF HasParent
      <4>3. eeHead \in Seq(Proposal) /\ Len(eeHead) \in Nat
        BY BlockFacts DEF IInv, Types, EngineTypes
      <4>4. n \in 0..Len(eeHead)
        BY <3>2, <4>2, <4>3
      <4>5. Len(parent) = n /\ \A k \in 1..n : parent[k] = eeHead[k]
        BY <4>1, <4>3, <4>4, FirstElements
      <4>6. \A k \in 1..n : k \in 1..Len(eeHead)
        BY <3>2, <4>2, <4>3
      <4>. QED  BY <3>1, <4>5, <4>6 DEF NoBeaconSync, NumberedBlock
    <3>. QED  BY <3>3, <3>4
  <2>. QED  BY <2>1, <2>2
<1>6. PICK new : new = Append(parent, Event)
  OBVIOUS
<1>7. /\ Len(new) = Len(parent) + 1 /\ new[Len(parent) + 1] = Event
      /\ \A k \in 1..Len(parent) : new[k] = parent[k]
  BY <1>2, <1>4, <1>6, AppendProperties
<1>8. NumberedBlock(new)
  <2> SUFFICES ASSUME NEW k \in 1..Len(parent) + 1  PROVE new[k].id = k
    BY <1>7 DEF NumberedBlock
  <2>1. CASE k = Len(parent) + 1
    BY <1>2, <1>4, <1>5, <1>7, <2>1
  <2>2. CASE k # Len(parent) + 1
    <3>1. k \in 1..Len(parent)
      BY <1>4, <2>2
    <3>. QED  BY <1>5, <1>7, <3>1 DEF NumberedBlock
  <2>. QED  BY <2>1, <2>2
<1>. QED  BY <1>3, <1>5, <1>6, <1>8

(* Each step keeps it.                                                      *)
LEMMA NoBeaconSyncStep == IInv /\ NoBeaconSync /\ [Next]_vars => NoBeaconSync'
<1> SUFFICES ASSUME IInv, NoBeaconSync, [Next]_vars, ~P2PSync
             PROVE  /\ ~tracker'.triggered /\ tracker'.last = None /\ eeTarget' = None
                    /\ NumberedBlock(eeHead')
                    /\ \A id \in BlockIDs : eeOrigin'[id] # None => NumberedBlock(eeOrigin'[id])
  BY DEF NoBeaconSync, NumberedBlock
<1>1. /\ ~tracker.triggered /\ tracker.last = None /\ eeTarget = None
      /\ NumberedBlock(eeHead)
      /\ \A id \in BlockIDs : eeOrigin[id] # None => NumberedBlock(eeOrigin[id])
  BY DEF NoBeaconSync
<1>2. CASE BuildPayload
  <2>1. /\ eeHead' = Parent(Event.id) /\ eeTarget' = None /\ tracker' = tracker
        /\ eeOrigin' = [eeOrigin EXCEPT ![Event.id] = Append(Parent(Event.id), Event)]
    BY <1>2 DEF BuildPayload
  <2>2. NumberedBlock(Parent(Event.id)) /\ NumberedBlock(Append(Parent(Event.id), Event))
    BY <1>2, PayloadNumbered
  <2>3. \A id \in BlockIDs : eeOrigin'[id] \in {eeOrigin[id], Append(Parent(Event.id), Event)}
    BY <2>1 DEF IInv, Types, EngineTypes
  <2>. QED  BY <1>1, <2>1, <2>2, <2>3
<1>3. CASE InsertHead
  <2>1. /\ eeHead' = eeOrigin[Event.id] /\ tracker' = tracker
        /\ eeTarget' = eeTarget /\ eeOrigin' = eeOrigin
    BY <1>1, <1>3 DEF InsertHead
  <2>2. eeOrigin[Event.id] # None /\ Event.id \in BlockIDs
    BY <1>3, EventFacts, ProposalFacts DEF InsertHead, IInv, Types, LoopTypes
  <2>. QED  BY <1>1, <2>1, <2>2
<1>4. ASSUME UNCHANGED eeVars, tracker' \in {tracker, NewTracker}
      PROVE  /\ ~tracker'.triggered /\ tracker'.last = None /\ eeTarget' = None
             /\ NumberedBlock(eeHead')
             /\ \A id \in BlockIDs : eeOrigin'[id] # None => NumberedBlock(eeOrigin'[id])
  BY <1>1, <1>4 DEF eeVars, NewTracker
<1>5. CASE Mine \/ Reorg \/ Verify \/ NewL1Head \/ UNCHANGED vars
  BY <1>4, <1>5 DEF Mine, Reorg, Verify, NewL1Head, vars, driverVars
<1>6. CASE EngineSynced \/ TrackTimeout \/ TriggerBeaconSync
  BY <1>1, <1>6 DEF EngineSynced, TrackTimeout, TriggerBeaconSync, NeedBeaconSync
<1>7. CASE StartBlockSync \/ OpenIterator \/ ReadBatch
  BY <1>1, <1>4, <1>7 DEF StartBlockSync, OpenIterator, ReadBatch
<1>8. CASE SkipEvent \/ ParentMissing \/ CallFails
  BY <1>4, <1>8 DEF SkipEvent, ParentMissing, CallFails
<1>9. CASE DetectReorg \/ Crash
  BY <1>4, <1>9 DEF DetectReorg, Crash, Restart
<1>. QED  BY <1>2, <1>3, <1>5, <1>6, <1>7, <1>8, <1>9 DEF Next, DriverStep

(* A node that never beacon syncs (--p2p.sync off) has every proposal at the *)
(* height of its block ID, whatever L1 does and however often it crashes     *)
(* (L2ParentByBlockID, createExecutionPayloads): the premise of OneHistory.  *)
THEOREM NumberedWithoutBeaconSync == Spec => [](~P2PSync => Numbered)
<1>1. Init => NoBeaconSync
  <2> SUFFICES ASSUME Init  PROVE NoBeaconSync
    OBVIOUS
  <2>1. NumberedBlock(eeHead)
    <3>1. Len(eeHead) = 0
      BY DEF Init, Genesis
    <3>. QED  BY <3>1 DEF NumberedBlock
  <2>. QED  BY <2>1 DEF Init, NoBeaconSync, NewTracker
<1>2. NoBeaconSync => (~P2PSync => Numbered)
  BY DEF NoBeaconSync, NumberedBlock, Numbered
<1>. QED  BY <1>1, <1>2, Invariant, NoBeaconSyncStep, PTL DEF Spec

=============================================================================
