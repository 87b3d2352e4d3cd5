---------------------------- MODULE Cognition_proofs ----------------------------
(***************************************************************************)
(* Proofs about what decides what is worked on: the evolutions proposed    *)
(* (ProposalCycles) and the plans two processes make of a goal             *)
(* (CognitiveLoop).                                                        *)
(***************************************************************************)
EXTENDS MCCognition, Goals_proofs, SelfModelState_proofs

-----------------------------------------------------------------------------
(* The proposals (ProposalCycles).                                         *)

Proposal ==
  [id : {Digest(t) : t \in ProposalTitles} \cup {Drawn(c, i) : c \in Nat, i \in 1 .. 3},
   title : ProposalTitles, cycle : Nat, index : 1 .. 3,
   status : {"proposed", "accepted", "rejected"}]

(* An id is the digest of the title or was drawn when the cycle was stored.*)
OwnId(p) == p.id \in {Digest(p.title), Drawn(p.cycle, p.index)}
Decided(p) == p.status # "proposed" => <<p.cycle, p.index, p.status>> \in decisions
IdsAreUnique(s) == \A i, j \in 1 .. Len(s) : s[i].id = s[j].id => i = j

ProposalInv ==
  /\ proposals \in Seq(Proposal) /\ cycles \in Nat
  /\ \A i \in 1 .. Len(proposals) :
       /\ OwnId(proposals[i]) /\ proposals[i].cycle <= cycles
       /\ Decided(proposals[i])
  /\ IdsAreUnique(proposals)

LEMMA StoredProposal ==
  ASSUME ProposalInv, NEW k \in 1 .. Len(proposals)
  PROVE  /\ proposals[k] \in Proposal /\ OwnId(proposals[k]) /\ Decided(proposals[k])
         /\ proposals[k].cycle \in Nat /\ proposals[k].cycle <= cycles
<1>1. proposals[k] \in Proposal
  BY DEF ProposalInv
<1>2. proposals[k].cycle \in Nat
  BY <1>1 DEF Proposal
<1> QED
  BY <1>1, <1>2 DEF ProposalInv

LEMMA IdsDiffer ==
  /\ \A t, c, i : Digest(t) # Drawn(c, i)
  /\ \A t, u : Digest(t) = Digest(u) => t = u
  /\ \A c, i, d, j : Drawn(c, i) = Drawn(d, j) => c = d /\ i = j
BY DEF Digest, Drawn

LEMMA CandidatesDiffer ==
  \A i, j \in 1 .. 8 : Candidates[i] = Candidates[j] => i = j
BY DEF Candidates

LEMMA CandidatesAreTitles == \A i \in 1 .. 8 : Candidates[i] \in ProposalTitles
<1>1. DOMAIN Candidates = 1 .. 8
  BY DEF Candidates
<1> QED
  BY <1>1 DEF ProposalTitles, ToSet

LEMMA HasLeast ==
  ASSUME NEW S \in SUBSET (1 .. 8), S # {}
  PROVE  Min(S) \in S
<1>1. \E x \in S : \A y \in S : x <= y
  <2> SUFFICES ASSUME \A x \in S : \E y \in S : y < x PROVE FALSE
    OBVIOUS
  <2>1. 1 \notin S
    OBVIOUS
  <2>2. 2 \notin S
    BY <2>1
  <2>3. 3 \notin S
    BY <2>1, <2>2
  <2>4. 4 \notin S
    BY <2>1, <2>2, <2>3
  <2>5. 5 \notin S
    BY <2>1, <2>2, <2>3, <2>4
  <2>6. 6 \notin S
    BY <2>1, <2>2, <2>3, <2>4, <2>5
  <2>7. 7 \notin S
    BY <2>1, <2>2, <2>3, <2>4, <2>5, <2>6
  <2>8. 8 \notin S
    BY <2>1, <2>2, <2>3, <2>4, <2>5, <2>6, <2>7
  <2> QED
    <3>1. PICK x \in S : TRUE
      OBVIOUS
    <3>2. x \in 1 .. 8
      OBVIOUS
    <3> QED
      BY <2>1, <2>2, <2>3, <2>4, <2>5, <2>6, <2>7, <2>8, <3>1, <3>2
<1> QED
  BY <1>1 DEF Min

(* A cycle proposes three different things.                                *)
LEMMA ThreeDiffer ==
  ASSUME NEW o
  PROVE  /\ \A i \in 1 .. 3 : FirstThree(o)[i] \in ProposalTitles
         /\ \A i, j \in 1 .. 3 : FirstThree(o)[i] = FirstThree(o)[j] => i = j
<1> DEFINE S == Offered(o)
           a == Min(S)
           b == Min(S \ {a})
           c == Min(S \ {a, b})
<1>1. S \subseteq 1 .. 8 /\ {6, 7, 8} \subseteq S
  BY DEF Offered
<1> HIDE DEF S
<1>2. a \in S
  BY <1>1, HasLeast
<1>3. b \in S \ {a}
  <2> DEFINE T == S \ {a}
  <2>1. T # {} /\ T \in SUBSET (1 .. 8)
    <3> HIDE DEF a
    <3>1. 6 \in T \/ 7 \in T
      BY <1>1
    <3>2. T \subseteq 1 .. 8
      BY <1>1
    <3> QED
      BY <3>1, <3>2
  <2> HIDE DEF T
  <2>2. Min(T) \in T
    BY <2>1, HasLeast
  <2> QED
    BY <2>2 DEF T
<1>4. c \in S \ {a, b}
  <2> DEFINE T == S \ {a, b}
  <2>1. T # {} /\ T \in SUBSET (1 .. 8)
    <3> HIDE DEF a, b
    <3>1. 6 \in T \/ 7 \in T \/ 8 \in T
      BY <1>1
    <3>2. T \subseteq 1 .. 8
      BY <1>1
    <3> QED
      BY <3>1, <3>2
  <2> HIDE DEF T
  <2>2. Min(T) \in T
    BY <2>1, HasLeast
  <2> QED
    BY <2>2 DEF T
<1>5. a \in 1 .. 8 /\ b \in 1 .. 8 /\ c \in 1 .. 8 /\ a # b /\ a # c /\ b # c
  BY <1>1, <1>2, <1>3, <1>4
<1>6. FirstThree(o) = <<Candidates[a], Candidates[b], Candidates[c]>>
  BY DEF FirstThree, S
<1> HIDE DEF a, b, c
<1>7. /\ Candidates[a] # Candidates[b] /\ Candidates[a] # Candidates[c]
      /\ Candidates[b] # Candidates[c]
      /\ {Candidates[a], Candidates[b], Candidates[c]} \subseteq ProposalTitles
  BY <1>5, CandidatesDiffer, CandidatesAreTitles
<1>8. /\ FirstThree(o)[1] = Candidates[a] /\ FirstThree(o)[2] = Candidates[b]
      /\ FirstThree(o)[3] = Candidates[c]
  BY <1>6
<1> QED
  BY <1>7, <1>8
(* What is kept is a tail of what is stored.                               *)
LEMMA KeptIsTail ==
  ASSUME NEW S, NEW s \in Seq(S)
  PROVE  \E k \in Nat :
           /\ KeepLast(s) \in Seq(S) /\ Len(KeepLast(s)) + k = Len(s)
           /\ \A i \in 1 .. Len(KeepLast(s)) : KeepLast(s)[i] = s[i + k]
<1> DEFINE m == IF Len(s) > KeptProposals THEN Len(s) - KeptProposals + 1 ELSE 1
           t == SubSeq(s, m, Len(s))
<1>1. Len(s) \in Nat /\ m \in 1 .. Len(s) + 1
  BY LenProperties, KeptAssumption
<1>2. \A i \in m .. Len(s) : s[i] \in S
  BY <1>1
<1>3. KeepLast(s) = t
  BY DEF KeepLast
<1> HIDE DEF m
<1>4. /\ t \in Seq(S) /\ Len(t) = (IF m <= Len(s) THEN Len(s) - m + 1 ELSE 0)
      /\ \A i \in 1 .. Len(s) - m + 1 : t[i] = s[m + i - 1]
  BY <1>1, <1>2, SubSeqProperties
<1> HIDE DEF t
<1>5. Len(t) = Len(s) - m + 1 /\ m - 1 \in Nat
  BY <1>1, <1>4
<1>6. Len(t) + (m - 1) = Len(s)
  BY <1>1, <1>5
<1>7. \A i \in 1 .. Len(t) : t[i] = s[i + (m - 1)]
  <2> SUFFICES ASSUME NEW i \in 1 .. Len(t) PROVE t[i] = s[i + (m - 1)]
    OBVIOUS
  <2>1. t[i] = s[m + i - 1]
    BY <1>4, <1>5
  <2>2. m + i - 1 = i + (m - 1)
    BY <1>1, <1>5
  <2> QED
    BY <2>1, <2>2
<1> QED
  BY <1>3, <1>4, <1>5, <1>6, <1>7

(* The proposals of a new cycle: with ids of their own, nothing decided.   *)
LEMMA NewCycle ==
  ASSUME ProposalInv, NEW o
  PROVE  /\ Cycle(o) \in Seq(Proposal) /\ Len(Cycle(o)) = 3
         /\ \A i \in 1 .. 3 :
              /\ OwnId(Cycle(o)[i]) /\ Cycle(o)[i].cycle = cycles + 1
              /\ Cycle(o)[i].status = "proposed"
              /\ \A k \in 1 .. Len(proposals) : proposals[k].id # Cycle(o)[i].id
         /\ IdsAreUnique(Cycle(o))
<1> DEFINE t == FirstThree(o)
           id(i) == NewId(t[i], cycles + 1, i)
           p(i) == [id |-> id(i), title |-> t[i], cycle |-> cycles + 1, index |-> i,
                    status |-> "proposed"]
<1>0. /\ cycles \in Nat /\ proposals \in Seq(Proposal)
      /\ DOMAIN proposals = 1 .. Len(proposals)
  BY DEF ProposalInv
<1>1. /\ \A i \in 1 .. 3 : t[i] \in ProposalTitles
      /\ \A i, j \in 1 .. 3 : t[i] = t[j] => i = j
  BY ThreeDiffer
<1>2. Cycle(o) = [i \in 1 .. 3 |-> p(i)]
  BY DEF Cycle
<1> HIDE DEF t
<1>3. ASSUME NEW i \in 1 .. 3
      PROVE  /\ id(i) \in {Digest(t[i]), Drawn(cycles + 1, i)}
             /\ id(i) = Digest(t[i]) => Digest(t[i]) \notin StoredIds
  BY IdsDiffer DEF NewId
<1>4. ASSUME NEW i \in 1 .. 3
      PROVE  p(i) \in Proposal
  BY <1>0, <1>1, <1>3 DEF Proposal
<1>5. ASSUME NEW i \in 1 .. 3, NEW k \in 1 .. Len(proposals)
      PROVE  proposals[k].id # id(i)
  <2>1. proposals[k].id \in StoredIds
    BY <1>0 DEF StoredIds
  <2>2. CASE id(i) = Digest(t[i])
    BY <1>3, <2>1, <2>2
  <2>3. CASE id(i) = Drawn(cycles + 1, i)
    <3>1. OwnId(proposals[k]) /\ proposals[k].cycle <= cycles /\ proposals[k].cycle \in Nat
      BY StoredProposal
    <3>2. proposals[k].cycle # cycles + 1
      BY <1>0, <3>1
    <3> QED
      BY <2>3, <3>1, <3>2, IdsDiffer DEF OwnId
  <2> QED
    BY <1>3, <2>2, <2>3
<1>6. ASSUME NEW i \in 1 .. 3, NEW j \in 1 .. 3, id(i) = id(j)
      PROVE  i = j
  <2>1. /\ id(i) = Digest(t[i]) \/ id(i) = Drawn(cycles + 1, i)
        /\ id(j) = Digest(t[j]) \/ id(j) = Drawn(cycles + 1, j)
    BY <1>3
  <2> DEFINE x == id(i)
             y == id(j)
             c == cycles + 1
  <2>2. /\ x = y
        /\ x = Digest(t[i]) \/ x = Drawn(c, i)
        /\ y = Digest(t[j]) \/ y = Drawn(c, j)
    BY <1>6, <2>1
  <2> HIDE DEF x, y, c
  <2>3. t[i] = t[j] \/ i = j
    BY <2>2, IdsDiffer
  <2> QED
    BY <1>1, <2>3
<1> HIDE DEF id
<1>7. /\ \A i \in 1 .. 3 : p(i) \in Proposal /\ p(i).id = id(i) /\ OwnId(p(i))
      /\ \A i \in 1 .. 3 : p(i).cycle = cycles + 1 /\ p(i).status = "proposed"
  BY <1>3, <1>4 DEF OwnId
<1> HIDE DEF p
<1>8. /\ Cycle(o) \in Seq(Proposal) /\ Len(Cycle(o)) = 3
      /\ \A i \in 1 .. 3 : Cycle(o)[i] = p(i)
  BY <1>2, <1>7
<1> QED
  BY <1>5, <1>6, <1>7, <1>8 DEF IdsAreUnique

LEMMA GenerateKeepsInv ==
  ASSUME ProposalInv, NEW o, Generate(o)
  PROVE  ProposalInv'
<1> DEFINE n == Len(proposals)
           new == Cycle(o)
           s == proposals \o new
           kept == KeepLast(s)
<1>0. /\ cycles \in Nat /\ proposals \in Seq(Proposal) /\ n \in Nat
      /\ cycles' = cycles + 1 /\ decisions' = decisions /\ proposals' = kept
      /\ IdsAreUnique(proposals)
  BY LenProperties DEF ProposalInv, Generate
<1>1. /\ new \in Seq(Proposal) /\ Len(new) = 3
      /\ \A i \in 1 .. 3 :
           /\ OwnId(new[i]) /\ new[i].cycle = cycles + 1 /\ new[i].status = "proposed"
           /\ \A k \in 1 .. n : proposals[k].id # new[i].id
      /\ IdsAreUnique(new)
  BY NewCycle
<1> HIDE DEF new
<1>2. /\ s \in Seq(Proposal) /\ Len(s) = n + 3
      /\ \A i \in 1 .. n + 3 : s[i] = IF i <= n THEN proposals[i] ELSE new[i - n]
  <2>1. /\ s \in Seq(Proposal) /\ Len(s) = n + Len(new)
        /\ \A i \in 1 .. n + Len(new) : s[i] = IF i <= n THEN proposals[i] ELSE new[i - n]
    BY <1>0, <1>1, ConcatProperties, ZenonT(40)
  <2> QED
    BY <1>1, <2>1
<1> HIDE DEF s
<1>3. ASSUME NEW i \in 1 .. n + 3
      PROVE  OwnId(s[i]) /\ s[i].cycle <= cycles + 1 /\ Decided(s[i])
  <2>1. CASE i <= n
    <3>1. i \in 1 .. Len(proposals) /\ s[i] = proposals[i]
      BY <1>0, <1>2, <2>1
    <3>2. /\ OwnId(proposals[i]) /\ proposals[i].cycle <= cycles
          /\ proposals[i].cycle \in Nat /\ Decided(proposals[i])
      BY <3>1, StoredProposal
    <3> QED
      BY <1>0, <3>1, <3>2
  <2>2. CASE ~(i <= n)
    <3>1. i - n \in 1 .. 3 /\ s[i] = new[i - n]
      BY <1>0, <1>2, <2>2
    <3>2. OwnId(s[i]) /\ s[i].cycle = cycles + 1 /\ s[i].status = "proposed"
      BY <1>1, <3>1
    <3> QED
      BY <1>0, <3>2 DEF Decided
  <2> QED
    BY <2>1, <2>2
<1>4. ASSUME NEW i \in 1 .. n + 3, NEW j \in 1 .. n + 3, s[i].id = s[j].id
      PROVE  i = j
  <2>1. /\ i <= n => i \in 1 .. n /\ s[i] = proposals[i]
        /\ j <= n => j \in 1 .. n /\ s[j] = proposals[j]
        /\ ~(i <= n) => i - n \in 1 .. 3 /\ s[i] = new[i - n]
        /\ ~(j <= n) => j - n \in 1 .. 3 /\ s[j] = new[j - n]
    BY <1>0, <1>2
  <2>2. CASE i <= n /\ j <= n
    BY <1>0, <1>4, <2>1, <2>2 DEF IdsAreUnique
  <2>3. CASE ~(i <= n) /\ ~(j <= n)
    <3>1. i - n = j - n
      BY <1>1, <1>4, <2>1, <2>3 DEF IdsAreUnique
    <3> QED
      BY <1>0, <3>1
  <2>4. CASE i <= n /\ ~(j <= n)
    BY <1>1, <1>4, <2>1, <2>4
  <2>5. CASE ~(i <= n) /\ j <= n
    BY <1>1, <1>4, <2>1, <2>5
  <2> QED
    BY <2>2, <2>3, <2>4, <2>5
<1>5. PICK k \in Nat : /\ kept \in Seq(Proposal) /\ Len(kept) + k = n + 3
                       /\ \A i \in 1 .. Len(kept) : kept[i] = s[i + k]
  <2>1. \E k \in Nat :
           /\ KeepLast(s) \in Seq(Proposal) /\ Len(KeepLast(s)) + k = Len(s)
           /\ \A i \in 1 .. Len(KeepLast(s)) : KeepLast(s)[i] = s[i + k]
    <3>1. s \in Seq(Proposal)
      BY <1>2
    <3> QED
      BY <3>1, KeptIsTail, Zenon
  <2> QED
    BY <1>2, <2>1
<1> HIDE DEF kept
<1>6. \A i \in 1 .. Len(kept) : i + k \in 1 .. n + 3 /\ kept[i] = s[i + k]
  BY <1>0, <1>5, LenProperties
<1>7. \A i \in 1 .. Len(kept) :
        OwnId(kept[i]) /\ kept[i].cycle <= cycles + 1 /\ Decided(kept[i])
  BY <1>3, <1>6
<1>8. IdsAreUnique(kept)
  <2> SUFFICES ASSUME NEW i \in 1 .. Len(kept), NEW j \in 1 .. Len(kept),
                      kept[i].id = kept[j].id
               PROVE  i = j
    BY DEF IdsAreUnique
  <2>1. i + k = j + k
    BY <1>4, <1>6
  <2> QED
    BY <1>5, <2>1, LenProperties
<1>9. \A i \in 1 .. Len(kept) :
        kept[i].status # "proposed" => <<kept[i].cycle, kept[i].index, kept[i].status>> \in decisions'
  BY <1>0, <1>7 DEF Decided
<1>10. /\ proposals' \in Seq(Proposal) /\ cycles' \in Nat
       /\ \A i \in 1 .. Len(proposals') :
            OwnId(proposals'[i]) /\ proposals'[i].cycle <= cycles'
       /\ IdsAreUnique(proposals')
  BY <1>0, <1>5, <1>7, <1>8
<1>11. \A i \in 1 .. Len(proposals') :
         proposals'[i].status # "proposed"
           => <<proposals'[i].cycle, proposals'[i].index, proposals'[i].status>> \in decisions'
  BY <1>0, <1>9
<1> QED
  BY <1>10, <1>11 DEF ProposalInv, IdsAreUnique, OwnId, Decided

(* A decision is kept with the proposal it was made of, and no other.      *)
LEMMA DecideKeepsInv ==
  ASSUME ProposalInv, NEW name, NEW p \in Named(name),
         NEW decision \in {"accepted", "rejected"}, Record(p, decision),
         Mark(p.id, decision) \/ UNCHANGED proposals
  PROVE  ProposalInv'
<1>0. /\ cycles' = cycles /\ cycles \in Nat /\ proposals \in Seq(Proposal)
      /\ decisions' = decisions \cup {<<p.cycle, p.index, decision>>}
      /\ Len(proposals) \in Nat /\ DOMAIN proposals = 1 .. Len(proposals)
      /\ IdsAreUnique(proposals)
  BY LenProperties DEF Record, ProposalInv
<1>1. \A i \in 1 .. Len(proposals) :
        /\ proposals[i] \in Proposal /\ OwnId(proposals[i])
        /\ proposals[i].cycle <= cycles /\ Decided(proposals[i])
  BY <1>0 DEF ProposalInv
<1>2. PICK k \in 1 .. Len(proposals) : p = proposals[k]
  BY <1>0 DEF Named, Latest, ToSet
<1>3. CASE UNCHANGED proposals
  <2>1. \A i \in 1 .. Len(proposals) : Decided(proposals[i])'
    BY <1>0, <1>1, <1>3 DEF Decided
  <2> QED
    BY <1>0, <1>1, <1>3, <2>1 DEF ProposalInv, IdsAreUnique, OwnId
<1>4. CASE Mark(p.id, decision)
  <2> DEFINE e == [p EXCEPT !.status = decision]
             f == [i \in 1 .. Len(proposals) |-> IF i = k THEN e ELSE proposals[i]]
  <2>1. \A i \in 1 .. Len(proposals) : proposals[i].id = p.id <=> i = k
    BY <1>0, <1>2 DEF IdsAreUnique
  <2>2. proposals' = f
    BY <1>0, <1>2, <1>4, <2>1 DEF Mark
  <2>3. /\ e \in Proposal /\ e.id = p.id /\ e.title = p.title /\ e.cycle = p.cycle
        /\ e.index = p.index /\ e.status = decision
    BY <1>1, <1>2 DEF Proposal
  <2> HIDE DEF e
  <2>4. /\ f \in Seq(Proposal) /\ Len(f) = Len(proposals)
        /\ f[k] = e /\ \A i \in 1 .. Len(proposals) : i # k => f[i] = proposals[i]
    BY <1>0, <1>1, <2>3
  <2> HIDE DEF f
  <2>5. \A i \in 1 .. Len(f) : /\ f[i].id = proposals[i].id
                               /\ OwnId(f[i]) /\ f[i].cycle <= cycles
    BY <1>1, <1>2, <2>3, <2>4 DEF OwnId
  <2>6. IdsAreUnique(f)
    BY <1>0, <2>4, <2>5 DEF IdsAreUnique
  <2>7. ASSUME NEW i \in 1 .. Len(f)
        PROVE  f[i].status # "proposed" => <<f[i].cycle, f[i].index, f[i].status>> \in decisions'
    <3>1. CASE i = k
      BY <1>0, <2>3, <2>4, <3>1
    <3>2. CASE i # k
      BY <1>0, <1>1, <2>4, <3>2 DEF Decided
    <3> QED
      BY <3>1, <3>2
  <2> QED
    BY <1>0, <2>2, <2>4, <2>5, <2>6, <2>7 DEF ProposalInv, Decided, IdsAreUnique, OwnId
<1> QED
  BY <1>3, <1>4

LEMMA ProposalStart == ProposalInit => ProposalInv
<1>1. <<>> \in Seq(Proposal) /\ Len(<<>>) = 0
  BY EmptySeq
<1> QED
  BY <1>1 DEF ProposalInit, ProposalInv, IdsAreUnique

LEMMA ProposalStep == ProposalInv /\ [ProposalNext]_proposalVars => ProposalInv'
<1> SUFFICES ASSUME ProposalInv, [ProposalNext]_proposalVars PROVE ProposalInv'
  OBVIOUS
<1>1. CASE UNCHANGED <<proposals, cycles, decisions>>
  BY <1>1 DEF ProposalInv, OwnId, Decided, IdsAreUnique
<1>2. CASE Propose
  BY <1>2, GenerateKeepsInv DEF Propose
<1>3. CASE EndMission
  BY <1>1, <1>3, GenerateKeepsInv DEF EndMission
<1>4. ASSUME NEW name \in Names, Accept(name) PROVE ProposalInv'
  <2>1. PICK p \in Named(name) :
          Record(p, "accepted") /\ (Mark(p.id, "accepted") \/ UNCHANGED proposals)
    BY <1>4 DEF Accept
  <2> QED
    BY <2>1, DecideKeepsInv
<1>5. ASSUME NEW name \in Names, Reject(name) PROVE ProposalInv'
  <2>1. PICK p \in Named(name) :
          Record(p, "rejected") /\ (Mark(p.id, "rejected") \/ UNCHANGED proposals)
    BY <1>5 DEF Reject
  <2> QED
    BY <2>1, DecideKeepsInv
<1>6. CASE UNCHANGED proposalVars
  BY <1>1, <1>6 DEF proposalVars
<1> QED
  BY <1>2, <1>3, <1>4, <1>5, <1>6 DEF ProposalNext

(* Each stored proposal says accepted or rejected only if a user decided   *)
(* on it, this one of its cycle, and on no other of the same title         *)
(* (storage.py, save_proposals and mark_proposal): for any repository, any *)
(* number of cycles and as many proposals kept as there are in one.        *)
THEOREM OnlyTheNamedIsMarkedCorrect == ProposalSpec => []OnlyTheNamedIsMarked
<1>1. ProposalInv => OnlyTheNamedIsMarked
  <2> SUFFICES ASSUME ProposalInv PROVE OnlyTheNamedIsMarked
    OBVIOUS
  <2>1. DOMAIN proposals = 1 .. Len(proposals)
    BY DEF ProposalInv
  <2> QED
    BY <2>1 DEF ProposalInv, OnlyTheNamedIsMarked, Decided
<1> QED
  BY <1>1, ProposalStart, ProposalStep, PTL DEF ProposalSpec

(* ProposalTypeOK: however many cycles are generated, and whatever is      *)
(* decided, the file keeps no more proposals than save_proposals lets it,  *)
(* and each has a title of those that detect_limits makes.                 *)
THEOREM ProposalTypeCorrect == ProposalSpec => []ProposalTypeOK
<1> DEFINE Few == /\ cycles \in 0 .. MaxCycles /\ active \in BOOLEAN
                   /\ Len(proposals) <= KeptProposals
<1>1. ProposalInit => Few
  <2>1. Len(<<>>) = 0
    BY EmptySeq
  <2>2. 0 \in 0 .. MaxCycles /\ 0 <= KeptProposals
    BY KeptAssumption
  <2> QED
    BY <2>1, <2>2, Zenon DEF ProposalInit
<1>2. ProposalInv /\ Few /\ [ProposalNext]_proposalVars => Few'
  <2> SUFFICES ASSUME ProposalInv, Few, [ProposalNext]_proposalVars PROVE Few'
    OBVIOUS
  <2>1. ASSUME NEW o, Generate(o)
        PROVE  cycles' \in 0 .. MaxCycles /\ Len(proposals') <= KeptProposals
    <3> DEFINE s == proposals \o Cycle(o)
               m == IF Len(s) > KeptProposals THEN Len(s) - KeptProposals + 1 ELSE 1
               t == SubSeq(s, m, Len(s))
    <3>1. s \in Seq(Proposal)
      BY NewCycle, ConcatProperties DEF ProposalInv
    <3>2. proposals' = t /\ cycles' = cycles + 1 /\ cycles < MaxCycles
      BY <2>1 DEF Generate, KeepLast
    <3> HIDE DEF s
    <3>3. Len(s) \in Nat /\ m \in 1 .. Len(s) + 1 /\ Len(s) - m + 1 <= KeptProposals
      BY <3>1, LenProperties, KeptAssumption
    <3>4. \A i \in m .. Len(s) : s[i] \in Proposal
      BY <3>1, <3>3
    <3> HIDE DEF m
    <3>5. Len(t) = (IF m <= Len(s) THEN Len(s) - m + 1 ELSE 0)
      BY <3>3, <3>4, SubSeqProperties
    <3>6. Len(t) <= KeptProposals
      BY <3>3, <3>5, KeptAssumption
    <3>7. cycles' \in 0 .. MaxCycles
      BY <3>2, KeptAssumption
    <3> HIDE DEF t
    <3> QED
      BY <3>2, <3>6, <3>7
  <2>2. ASSUME NEW id, NEW decision, Mark(id, decision)
        PROVE  Len(proposals') = Len(proposals)
    <3>1. DOMAIN proposals = 1 .. Len(proposals) /\ Len(proposals) \in Nat
      BY LenProperties DEF ProposalInv
    <3> QED
      BY <2>2, <3>1 DEF Mark
  <2>3. CASE Propose
    BY <2>1, <2>3 DEF Propose
  <2>4. CASE EndMission
    BY <2>1, <2>4 DEF EndMission
  <2>5. ASSUME NEW name, Accept(name) \/ Reject(name) PROVE Few'
    <3>1. cycles' = cycles /\ active' \in BOOLEAN
      BY <2>5 DEF Accept, Reject, Record
    <3>2. Len(proposals') = Len(proposals)
      BY <2>2, <2>5 DEF Accept, Reject
    <3> QED
      BY <3>1, <3>2
  <2>6. CASE UNCHANGED proposalVars
    BY <2>6 DEF proposalVars
  <2> QED
    BY <2>3, <2>4, <2>5, <2>6 DEF ProposalNext
<1>3. ProposalInv /\ Few => ProposalTypeOK
  <2> SUFFICES ASSUME ProposalInv, Few PROVE ProposalTypeOK
    OBVIOUS
  <2>1. DOMAIN proposals = 1 .. Len(proposals)
    BY LenProperties DEF ProposalInv
  <2>2. \A i \in DOMAIN proposals : proposals[i].title \in ProposalTitles
    BY <2>1, StoredProposal DEF Proposal
  <2> QED
    BY <2>2, Zenon DEF ProposalTypeOK
<1> HIDE DEF Few
<1> QED
  BY <1>1, <1>2, <1>3, ProposalStart, ProposalStep, PTL DEF ProposalSpec

-----------------------------------------------------------------------------
(* The plans of the cognitive cycles (CognitiveLoop).                      *)

PlanRecord ==
  [id : Nat, goal : CycleGoals \cup {NoGoal}, status : PlanStatuses, tasks : Seq(Nat)]
CycleRecord == [goal : CycleGoals \cup {NoGoal}, plan : Nat, tasks : Seq(Nat)]
Making == {"tasks", "link", "save"}     \* where a cycle has a plan
Rewriting == [plans : Seq(PlanRecord), id : Nat, status : PlanStatuses]
CyclePlaces == {"idle", "plans"} \cup Making

LoopTypes ==
  /\ plans \in Seq(PlanRecord) /\ at \in [Processes -> CyclePlaces]
  /\ cycle \in [Processes -> CycleRecord]
  /\ rewrite \in Rewriting \cup {NoRewrite}
  /\ made \in [tasks : Nat, plans : Nat]
  /\ rewrite # NoRewrite => at["server"] = "idle"

(* Of the plans the executor looks back on, a goal has one that is open.   *)
RecentOf(s) == {i \in 1 .. Len(s) : i > Len(s) - Window}
OpenOnce(s) ==
  \A i, j \in RecentOf(s) :
    s[i].goal = s[j].goal /\ s[i].status \in OpenPlan /\ s[j].status \in OpenPlan => i = j
PlansDiffer(s, n) ==
  /\ \A i, j \in 1 .. Len(s) : s[i].id = s[j].id => i = j
  /\ \A i \in 1 .. Len(s) : s[i].id <= n
Sound(s, n) == OpenOnce(s) /\ PlansDiffer(s, n)

(* What a cycle c that makes a plan has found among the plans s.           *)
IsNew(s, n, c) ==
  /\ c.plan <= n /\ \A i \in 1 .. Len(s) : s[i].id # c.plan
  /\ \A i \in RecentOf(s) : s[i].goal = c.goal => s[i].status \notin OpenPlan

Rewrites(x) ==
  \E i \in 1 .. Len(x.plans) :
    x.plans[i].id = x.id /\ (x.status \in OpenPlan => x.plans[i].status \in OpenPlan)

(* The server and the loop took turns, and no closed plan was approved.    *)
Apart == "overlap" \notin mishaps
Calm == Apart /\ "revive" \notin mishaps
Turns == \A p, q \in Processes : Busy(p) /\ Busy(q) => p = q

PlanInv ==
  /\ LoopTypes /\ (Apart => Turns)
  /\ Calm => /\ Sound(plans, made.plans)
             /\ \A p \in Processes : at[p] \in Making => IsNew(plans, made.plans, cycle[p])
             /\ rewrite # NoRewrite => /\ Sound(rewrite.plans, made.plans)
                                       /\ Rewrites(rewrite)

LEMMA IdleCycle == NoCycle \in CycleRecord
<1>1. <<>> \in Seq(Nat)
  BY EmptySeq
<1> QED
  BY <1>1 DEF NoCycle, CycleRecord

LEMMA EmptyIsSound == \A n : Sound(<<>>, n)
<1>1. Len(<<>>) = 0
  BY EmptySeq
<1> QED
  BY <1>1 DEF Sound, OpenOnce, PlansDiffer, RecentOf

(* A step that leaves the plans and the cycles as they are.                *)
LEMMA TasksKeepInv ==
  ASSUME PlanInv, UNCHANGED <<plans, rewrite, at, cycle>>, mishaps \subseteq mishaps',
         made' \in [tasks : Nat, plans : Nat], made'.plans = made.plans
  PROVE  PlanInv'
<1>1. LoopTypes'
  BY DEF PlanInv, LoopTypes
<1>2. (Calm' => Calm) /\ (Apart' => Apart)
  BY DEF Calm, Apart
<1>3. Turns => Turns'
  BY DEF Turns, Busy
<1> QED
  BY <1>1, <1>2, <1>3 DEF PlanInv

(* The plan of a cycle is added: no open one of its goal is looked back on.*)
LEMMA AppendIsSound ==
  ASSUME NEW s \in Seq(PlanRecord), NEW n \in Nat, Sound(s, n),
         NEW c \in CycleRecord, IsNew(s, n, c)
  PROVE  LET t == Append(s, [id |-> c.plan, goal |-> c.goal, status |-> "pending",
                             tasks |-> c.tasks])
         IN t \in Seq(PlanRecord) /\ Sound(t, n)
<1> DEFINE x == [id |-> c.plan, goal |-> c.goal, status |-> "pending", tasks |-> c.tasks]
           t == Append(s, x)
           l == Len(s)
<1>1. /\ x \in PlanRecord /\ x.id = c.plan /\ x.goal = c.goal /\ x.status = "pending"
      /\ c.plan <= n
  BY DEF CycleRecord, PlanRecord, PlanStatuses, OpenPlan, IsNew
<1> HIDE DEF x
<1>2. /\ t \in Seq(PlanRecord) /\ Len(t) = l + 1 /\ t[l + 1] = x
      /\ \A i \in 1 .. l : t[i] = s[i]
      /\ l \in Nat /\ Window \in Nat
  BY <1>1, AppendProperties, LenProperties, CognitiveAssumption
<1> HIDE DEF t, l
<1>3. \A i \in 1 .. l + 1 : i = l + 1 \/ i \in 1 .. l
  BY <1>2
<1>4. PlansDiffer(t, n)
  <2>1. ASSUME NEW i \in 1 .. l + 1, NEW j \in 1 .. l + 1, t[i].id = t[j].id
        PROVE  i = j
    BY <1>1, <1>2, <1>3, <2>1 DEF Sound, PlansDiffer, IsNew, l
  <2>2. \A i \in 1 .. l + 1 : t[i].id <= n
    BY <1>1, <1>2, <1>3 DEF Sound, PlansDiffer, l
  <2> QED
    BY <1>2, <2>1, <2>2 DEF PlansDiffer
<1>5. OpenOnce(t)
  <2> SUFFICES ASSUME NEW i \in RecentOf(t), NEW j \in RecentOf(t), t[i].goal = t[j].goal,
                      t[i].status \in OpenPlan, t[j].status \in OpenPlan
               PROVE  i = j
    BY DEF OpenOnce
  <2>1. /\ i \in 1 .. l + 1 /\ (i \in 1 .. l => i \in RecentOf(s))
        /\ j \in 1 .. l + 1 /\ (j \in 1 .. l => j \in RecentOf(s))
    BY <1>2 DEF RecentOf, l
  <2>2. CASE i \in 1 .. l /\ j \in 1 .. l
    BY <1>2, <2>1, <2>2 DEF Sound, OpenOnce
  <2>3. CASE i = l + 1 /\ j \in 1 .. l
    BY <1>1, <1>2, <2>1, <2>3 DEF IsNew
  <2>4. CASE i \in 1 .. l /\ j = l + 1
    BY <1>1, <1>2, <2>1, <2>4 DEF IsNew
  <2> QED
    BY <1>3, <2>1, <2>2, <2>3, <2>4
<1> QED
  BY <1>2, <1>4, <1>5 DEF Sound, x, t

(* A rewrite closes a plan or moves an open one on.                        *)
LEMMA RewriteIsSound ==
  ASSUME NEW x \in Rewriting, NEW n, Sound(x.plans, n), Rewrites(x)
  PROVE  LET t == [i \in DOMAIN x.plans |->
                     IF x.plans[i].id = x.id
                     THEN [x.plans[i] EXCEPT !.status = x.status]
                     ELSE x.plans[i]]
         IN t \in Seq(PlanRecord) /\ Sound(t, n)
<1> DEFINE s == x.plans
           l == Len(s)
           t == [i \in DOMAIN s |->
                   IF s[i].id = x.id THEN [s[i] EXCEPT !.status = x.status] ELSE s[i]]
<1>1. /\ s \in Seq(PlanRecord) /\ x.status \in PlanStatuses
      /\ l \in Nat /\ DOMAIN s = 1 .. l
  BY LenProperties DEF Rewriting
<1>2. PICK k \in 1 .. l :
        s[k].id = x.id /\ (x.status \in OpenPlan => s[k].status \in OpenPlan)
  BY DEF Rewrites
<1> HIDE DEF s
<1>3. \A i \in 1 .. l : s[i].id = x.id <=> i = k
  BY <1>2 DEF Sound, PlansDiffer, s
<1> DEFINE e == [s[k] EXCEPT !.status = x.status]
<1>4. e \in PlanRecord /\ e.id = s[k].id /\ e.goal = s[k].goal /\ e.status = x.status
  <2>1. s[k] \in PlanRecord
    BY <1>1
  <2> QED
    BY <1>1, <2>1 DEF PlanRecord
<1>5. t = [i \in 1 .. l |-> IF i = k THEN e ELSE s[i]]
  BY <1>1, <1>2, <1>3
<1> HIDE DEF e, t
<1>6. /\ t \in Seq(PlanRecord) /\ Len(t) = l
      /\ t[k] = e /\ \A i \in 1 .. l : i # k => t[i] = s[i]
  BY <1>1, <1>4, <1>5
<1>7. ASSUME NEW i \in 1 .. l
      PROVE  /\ t[i].id = s[i].id /\ t[i].goal = s[i].goal
             /\ t[i].status \in OpenPlan => s[i].status \in OpenPlan
  <2>1. CASE i = k
    BY <1>2, <1>4, <1>6, <2>1
  <2>2. CASE i # k
    BY <1>6, <2>2
  <2> QED
    BY <2>1, <2>2
<1>8. RecentOf(t) = RecentOf(s) /\ RecentOf(s) \subseteq 1 .. l
  BY <1>6 DEF RecentOf
<1>9. OpenOnce(t)
  BY <1>7, <1>8 DEF Sound, OpenOnce, s
<1>10. PlansDiffer(t, n)
  BY <1>6, <1>7 DEF Sound, PlansDiffer, s
<1> QED
  BY <1>6, <1>9, <1>10 DEF Sound, t, s

(* A step of the cycle of p that leaves the plans as they are; p is the one*)
(* that is busy, and what it has in hand is new.                           *)
LEMMA CycleKeepsInv ==
  ASSUME PlanInv, NEW p \in Processes, UNCHANGED <<plans, rewrite>>, mishaps \subseteq mishaps',
         at' \in [Processes -> CyclePlaces], cycle' \in [Processes -> CycleRecord],
         \A q \in Processes \ {p} : at'[q] = at[q] /\ cycle'[q] = cycle[q],
         made' \in [tasks : Nat, plans : Nat], made'.plans >= made.plans,
         p = "server" => rewrite = NoRewrite \/ at'[p] = "idle",
         at'[p] = "idle" \/ Busy(p) \/ (Apart' => \A q \in Processes : ~Busy(q)),
         Calm /\ Sound(plans, made.plans) /\ at'[p] \in Making
           => IsNew(plans, made'.plans, cycle'[p])
  PROVE  PlanInv'
<1>0. /\ plans \in Seq(PlanRecord) /\ at \in [Processes -> CyclePlaces]
      /\ cycle \in [Processes -> CycleRecord] /\ made \in [tasks : Nat, plans : Nat]
      /\ made.plans \in Nat /\ made'.plans \in Nat
      /\ rewrite # NoRewrite => at["server"] = "idle"
      /\ "server" \in Processes
  BY DEF PlanInv, LoopTypes, Processes
<1>1. LoopTypes'
  <2>1. rewrite' # NoRewrite => at'["server"] = "idle"
    BY <1>0
  <2> QED
    BY <2>1 DEF PlanInv, LoopTypes
<1>4. Apart' => Turns'
  <2> SUFFICES ASSUME Apart' PROVE Turns'
    OBVIOUS
  <2>0. Turns
    BY DEF PlanInv, Apart
  <2>1. \A q \in Processes \ {p} : Busy(q)' = Busy(q)
    BY DEF Busy
  <2>2. CASE Busy(p)
    BY <2>0, <2>1, <2>2 DEF Turns
  <2>3. CASE \A q \in Processes : ~Busy(q)
    BY <2>1, <2>3 DEF Turns
  <2>4. CASE at'[p] = "idle" /\ ~Busy(p)
    <3>1. ~Busy(p)'
      BY <2>4 DEF Busy
    <3> QED
      BY <2>0, <2>1, <3>1 DEF Turns
  <2> QED
    BY <2>2, <2>3, <2>4
<1> SUFFICES ASSUME Calm'
             PROVE  /\ Sound(plans', made'.plans)
                    /\ \A q \in Processes : at'[q] \in Making => IsNew(plans', made'.plans, cycle'[q])
                    /\ rewrite' # NoRewrite => /\ Sound(rewrite'.plans, made'.plans)
                                               /\ Rewrites(rewrite')
  BY <1>1, <1>4 DEF PlanInv
<1>2. Calm
  BY DEF Calm, Apart
<1>3. /\ Sound(plans, made.plans)
      /\ \A q \in Processes : at[q] \in Making => IsNew(plans, made.plans, cycle[q])
      /\ rewrite # NoRewrite => Sound(rewrite.plans, made.plans) /\ Rewrites(rewrite)
  BY <1>2 DEF PlanInv
<1>5. ASSUME NEW s \in Seq(PlanRecord), Sound(s, made.plans)
      PROVE  Sound(s, made'.plans)
  <2>1. ASSUME NEW i \in 1 .. Len(s) PROVE s[i].id \in Nat
    <3>1. s[i] \in PlanRecord
      BY <1>5
    <3> QED
      BY <3>1 DEF PlanRecord
  <2> QED
    BY <1>0, <1>5, <2>1 DEF Sound, PlansDiffer
<1>6. ASSUME NEW q \in Processes, at'[q] \in Making
      PROVE  IsNew(plans, made'.plans, cycle'[q])
  <2>1. CASE q = p
    BY <1>2, <1>3, <1>6, <2>1
  <2>2. CASE q # p
    <3>1. IsNew(plans, made.plans, cycle[q]) /\ cycle[q].plan \in Nat
      BY <1>0, <1>3, <1>6, <2>2 DEF CycleRecord
    <3> QED
      BY <1>0, <2>2, <3>1 DEF IsNew
  <2> QED
    BY <2>1, <2>2
<1>7. rewrite # NoRewrite => rewrite.plans \in Seq(PlanRecord)
  BY DEF PlanInv, LoopTypes, Rewriting
<1> QED
  BY <1>0, <1>3, <1>5, <1>6, <1>7

(* The core creates tasks, looks at them, or begins a plan.                *)
LEMMA EvaluateKeepsPlans ==
  ASSUME PlanInv, NEW p \in Processes, Evaluate(p)
  PROVE  PlanInv'
<1>0. /\ at \in [Processes -> CyclePlaces] /\ cycle \in [Processes -> CycleRecord]
      /\ made \in [tasks : Nat, plans : Nat] /\ made.plans \in Nat
  BY DEF PlanInv, LoopTypes
<1>1. PICK goal \in CycleGoals \cup {NoGoal}, governed \in Modes3 :
        LET missing == IF p = "server" /\ goal # NoGoal
                       THEN Proposed(governed) \ Titles(Known(p)) ELSE {}
        IN /\ ~Busy(p)
           /\ \/ AddTasks(p, missing) /\ at' = at /\ cycle' = cycle
              \/ /\ ActOnDecision(p, IF p = "server" THEN Known(p) ELSE file, goal, governed)
                 /\ mishaps' = mishaps \cup Overlap
                 /\ UNCHANGED made
           /\ UNCHANGED planVars
  BY Zenon DEF Evaluate
<1> DEFINE missing == IF p = "server" /\ goal # NoGoal
                      THEN Proposed(governed) \ Titles(Known(p)) ELSE {}
<1>2. UNCHANGED <<plans, rewrite>>
  BY <1>1 DEF planVars
<1>3. CASE AddTasks(p, missing) /\ at' = at /\ cycle' = cycle
  <2>1. Cardinality(missing) \in Nat
    <3>1. missing \subseteq CoreHigh \cup CoreMedium
      BY DEF Proposed, Modes3
    <3>2. IsFiniteSet(CoreHigh \cup CoreMedium)
      BY CognitiveAssumption, FS_Union
    <3> QED
      BY <3>1, <3>2, FS_Subset, FS_CardinalityType
  <2> HIDE DEF missing
  <2>2. mishaps \subseteq mishaps'
    BY <1>3 DEF AddTasks, Save
  <2>3. made' = [made EXCEPT !.tasks = made.tasks + Cardinality(missing)]
    BY <1>3 DEF AddTasks
  <2>4. made' \in [tasks : Nat, plans : Nat] /\ made'.plans = made.plans
    BY <1>0, <2>1, <2>3
  <2> QED
    BY <1>2, <1>3, <2>2, <2>4, TasksKeepInv
<1>4. CASE /\ ActOnDecision(p, IF p = "server" THEN Known(p) ELSE file, goal, governed)
           /\ mishaps' = mishaps \cup Overlap
           /\ UNCHANGED made
  <2> DEFINE c == [cycle[p] EXCEPT !.goal = goal]
  <2>1. \/ at' = [at EXCEPT ![p] = "plans"] /\ cycle' = [cycle EXCEPT ![p] = c]
        \/ at' = at /\ cycle' = cycle
    <3>1. \/ at' = [at EXCEPT ![p] = "plans"] /\ cycle' = [cycle EXCEPT ![p].goal = goal]
          \/ UNCHANGED <<at, cycle>>
      BY <1>4 DEF ActOnDecision
    <3> QED
      BY <3>1
  <2>2. c \in CycleRecord
    <3>1. cycle[p] \in CycleRecord
      BY <1>0
    <3> QED
      BY <3>1 DEF CycleRecord
  <2> HIDE DEF c
  <2>3. /\ at' \in [Processes -> CyclePlaces] /\ cycle' \in [Processes -> CycleRecord]
        /\ \A q \in Processes \ {p} : at'[q] = at[q] /\ cycle'[q] = cycle[q]
        /\ at'[p] = "plans" \/ at'[p] = at[p]
    BY <1>0, <2>1, <2>2 DEF CyclePlaces
  <2>4. at[p] = "idle" /\ (p = "server" => rewrite = NoRewrite)
    BY <1>1 DEF Busy
  <2>5. Apart' => \A q \in Processes : ~Busy(q)
    BY <1>4 DEF Overlap, Noted, Apart
  <2>6. mishaps \subseteq mishaps' /\ made' = made
    BY <1>4
  <2>7. ~(at'[p] \in Making)
    BY <2>3, <2>4 DEF Making
  <2> QED
    BY <1>0, <1>2, <2>3, <2>4, <2>5, <2>6, <2>7, CycleKeepsInv
<1> QED
  BY <1>1, <1>3, <1>4

(* A goal that has no open plan gets a new one.                            *)
LEMMA LookKeepsPlans ==
  ASSUME PlanInv, NEW p \in Processes, LookForPlan(p)
  PROVE  PlanInv'
<1>0. /\ at \in [Processes -> CyclePlaces] /\ cycle \in [Processes -> CycleRecord]
      /\ made \in [tasks : Nat, plans : Nat] /\ made.plans \in Nat
      /\ plans \in Seq(PlanRecord)
      /\ rewrite # NoRewrite => at["server"] = "idle"
  BY DEF PlanInv, LoopTypes
<1>1. UNCHANGED <<plans, rewrite, mishaps>> /\ at[p] = "plans"
  BY DEF LookForPlan, planVars
<1>2. Busy(p) /\ (p = "server" => rewrite = NoRewrite)
  BY <1>0, <1>1 DEF Busy
<1>3. CASE HasOpenPlan(cycle[p].goal)
  <2>1. at' = [at EXCEPT ![p] = "idle"] /\ cycle' = [cycle EXCEPT ![p] = NoCycle] /\ made' = made
    BY <1>3 DEF LookForPlan, End
  <2>2. /\ at' \in [Processes -> CyclePlaces] /\ cycle' \in [Processes -> CycleRecord]
        /\ \A q \in Processes \ {p} : at'[q] = at[q] /\ cycle'[q] = cycle[q]
        /\ at'[p] = "idle"
    BY <1>0, <2>1, IdleCycle DEF CyclePlaces
  <2>3. ~(at'[p] \in Making)
    BY <2>2 DEF Making
  <2> QED
    BY <1>0, <1>1, <2>1, <2>2, <2>3, CycleKeepsInv
<1>4. CASE ~HasOpenPlan(cycle[p].goal)
  <2> DEFINE c == [cycle[p] EXCEPT !.plan = made.plans + 1]
  <2>1. /\ at' = [at EXCEPT ![p] = "tasks"] /\ cycle' = [cycle EXCEPT ![p] = c]
        /\ made' = [made EXCEPT !.plans = made.plans + 1]
    BY <1>4 DEF LookForPlan
  <2>2. c \in CycleRecord /\ c.plan = made.plans + 1 /\ c.goal = cycle[p].goal
    <3>1. cycle[p] \in CycleRecord
      BY <1>0
    <3>2. made.plans + 1 \in Nat
      BY <1>0
    <3> QED
      BY <3>1, <3>2 DEF CycleRecord
  <2> HIDE DEF c
  <2>3. /\ at' \in [Processes -> CyclePlaces] /\ cycle' \in [Processes -> CycleRecord]
        /\ \A q \in Processes \ {p} : at'[q] = at[q] /\ cycle'[q] = cycle[q]
        /\ cycle'[p] = c
    BY <1>0, <2>1, <2>2 DEF CyclePlaces, Making
  <2>4. made' \in [tasks : Nat, plans : Nat] /\ made'.plans = made.plans + 1
    BY <1>0, <2>1
  <2>5. ASSUME Sound(plans, made.plans)
        PROVE  IsNew(plans, made'.plans, c)
    <3>1. DOMAIN plans = 1 .. Len(plans)
      BY <1>0, LenProperties
    <3>2. ASSUME NEW i \in 1 .. Len(plans) PROVE plans[i].id # c.plan
      <4>1. plans[i] \in PlanRecord
        BY <1>0, <3>1
      <4>2. plans[i].id \in Nat
        BY <4>1 DEF PlanRecord
      <4>3. plans[i].id <= made.plans
        BY <2>5 DEF Sound, PlansDiffer
      <4> QED
        BY <1>0, <2>2, <4>2, <4>3
    <3>3. \A i \in RecentOf(plans) : plans[i].goal = c.goal => plans[i].status \notin OpenPlan
      BY <1>4, <2>2, <3>1 DEF HasOpenPlan, Recent, RecentOf
    <3> QED
      BY <1>0, <2>2, <2>4, <3>2, <3>3 DEF IsNew
  <2> QED
    BY <1>0, <1>1, <1>2, <2>3, <2>4, <2>5, CycleKeepsInv
<1> QED
  BY <1>3, <1>4

(* The tasks of a plan are made, one after the other, and linked to it.    *)
LEMMA MakingKeepsPlans ==
  ASSUME PlanInv, NEW p \in Processes, CreateTask(p) \/ LinkTasks(p)
  PROVE  PlanInv'
<1>0. /\ at \in [Processes -> CyclePlaces] /\ cycle \in [Processes -> CycleRecord]
      /\ made \in [tasks : Nat, plans : Nat] /\ made.plans \in Nat /\ made.tasks \in Nat
      /\ rewrite # NoRewrite => at["server"] = "idle"
  BY DEF PlanInv, LoopTypes
<1>1. /\ UNCHANGED <<plans, rewrite>> /\ mishaps \subseteq mishaps'
      /\ at[p] \in {"tasks", "link"}
  BY DEF CreateTask, LinkTasks, planVars, Save
<1>2. Busy(p) /\ at[p] \in Making /\ (p = "server" => rewrite = NoRewrite)
  BY <1>0, <1>1 DEF Busy, Making
<1>3. Calm => IsNew(plans, made.plans, cycle[p])
  BY <1>2 DEF PlanInv
<1>4. cycle[p] \in CycleRecord
  BY <1>0
<1>5. PICK e \in CycleRecord :
        /\ e.goal = cycle[p].goal /\ e.plan = cycle[p].plan
        /\ cycle' = [cycle EXCEPT ![p] = e]
        /\ \E l \in Making : at' = [at EXCEPT ![p] = l]
  <2>1. CASE CreateTask(p)
    <3> DEFINE e == [cycle[p] EXCEPT !.tasks = Append(cycle[p].tasks, made.tasks + 1)]
    <3>1. cycle' = [cycle EXCEPT ![p] = e]
      BY <1>0, <2>1 DEF CreateTask
    <3>2. Append(cycle[p].tasks, made.tasks + 1) \in Seq(Nat)
      BY <1>0, <1>4, AppendProperties DEF CycleRecord
    <3>3. e \in CycleRecord /\ e.goal = cycle[p].goal /\ e.plan = cycle[p].plan
      BY <1>4, <3>2 DEF CycleRecord
    <3>4. \E l \in Making : at' = [at EXCEPT ![p] = l]
      BY <2>1 DEF CreateTask, Making
    <3> QED
      BY <3>1, <3>3, <3>4
  <2>2. CASE LinkTasks(p)
    <3>1. cycle' = [cycle EXCEPT ![p] = cycle[p]] /\ at' = [at EXCEPT ![p] = "save"]
      BY <1>0, <2>2 DEF LinkTasks
    <3> QED
      BY <1>4, <3>1 DEF Making
  <2> QED
    BY <2>1, <2>2
<1>6. made' \in [tasks : Nat, plans : Nat] /\ made'.plans = made.plans
  <2>1. made' = [made EXCEPT !.tasks = made.tasks + 1] \/ made' = made
    BY <1>0 DEF CreateTask, LinkTasks
  <2> QED
    BY <1>0, <2>1
<1>7. /\ at' \in [Processes -> CyclePlaces] /\ cycle' \in [Processes -> CycleRecord]
      /\ \A q \in Processes \ {p} : at'[q] = at[q] /\ cycle'[q] = cycle[q]
      /\ cycle'[p] = e
  BY <1>0, <1>5 DEF CyclePlaces
<1>8. Calm => IsNew(plans, made'.plans, e)
  BY <1>3, <1>5, <1>6 DEF IsNew
<1> QED
  BY <1>0, <1>1, <1>2, <1>6, <1>7, <1>8, CycleKeepsInv

(* The plan in hand is appended to plans.jsonl, and the cycle ends.        *)
LEMMA SaveKeepsPlans ==
  ASSUME PlanInv, NEW p \in Processes, SavePlan(p)
  PROVE  PlanInv'
<1>0. /\ plans \in Seq(PlanRecord) /\ at \in [Processes -> CyclePlaces]
      /\ cycle \in [Processes -> CycleRecord] /\ made \in [tasks : Nat, plans : Nat]
      /\ made.plans \in Nat /\ cycle[p] \in CycleRecord
      /\ rewrite # NoRewrite => at["server"] = "idle"
  BY DEF PlanInv, LoopTypes
<1> DEFINE new == Append(plans, [id |-> cycle[p].plan, goal |-> cycle[p].goal,
                                 status |-> "pending", tasks |-> cycle[p].tasks])
<1>1. /\ UNCHANGED <<rewrite, made, mishaps>> /\ at[p] = "save" /\ plans' = new
      /\ at' = [at EXCEPT ![p] = "idle"] /\ cycle' = [cycle EXCEPT ![p] = NoCycle]
  BY DEF SavePlan, End
<1>2. /\ Busy(p) /\ at[p] \in Making /\ ~Busy(p)'
      /\ \A q \in Processes \ {p} : /\ Busy(q)' = Busy(q)
                                    /\ at'[q] = at[q] /\ cycle'[q] = cycle[q]
      /\ at'[p] \notin Making
  BY <1>0, <1>1 DEF Busy, Making
<1>3. new \in Seq(PlanRecord) /\ (Calm => Sound(new, made.plans))
  <2>1. [id |-> cycle[p].plan, goal |-> cycle[p].goal, status |-> "pending",
         tasks |-> cycle[p].tasks] \in PlanRecord
    BY <1>0 DEF CycleRecord, PlanRecord, PlanStatuses, OpenPlan
  <2>2. new \in Seq(PlanRecord)
    BY <1>0, <2>1, AppendProperties
  <2>3. Calm => Sound(plans, made.plans) /\ IsNew(plans, made.plans, cycle[p])
    BY <1>2 DEF PlanInv
  <2> QED
    BY <1>0, <2>2, <2>3, AppendIsSound
<1> HIDE DEF new
<1>4. LoopTypes'
  <2>1. at' \in [Processes -> CyclePlaces] /\ cycle' \in [Processes -> CycleRecord]
    BY <1>0, <1>1, IdleCycle DEF CyclePlaces
  <2>2. rewrite' # NoRewrite => at'["server"] = "idle"
    BY <1>0, <1>1
  <2> QED
    BY <1>1, <1>3, <2>1, <2>2 DEF PlanInv, LoopTypes
<1>5. Apart => Turns' /\ \A q \in Processes : at'[q] \notin Making
  <2>1. Apart => Turns
    BY DEF PlanInv
  <2>2. \A q \in Processes : at[q] \in Making => Busy(q)
    BY DEF Making, Busy
  <2> QED
    BY <1>2, <2>1, <2>2 DEF Turns
<1>6. (Calm' => Calm) /\ (Apart' => Apart) /\ (Calm => Apart)
  BY <1>1 DEF Calm, Apart
<1> QED
  BY <1>1, <1>3, <1>4, <1>5, <1>6 DEF PlanInv

(* What a killed process had in hand is forgotten.                         *)
LEMMA RestartKeepsPlans ==
  ASSUME PlanInv, NEW p \in Processes, Restart(p)
  PROVE  PlanInv'
<1>0. /\ at \in [Processes -> CyclePlaces] /\ cycle \in [Processes -> CycleRecord]
      /\ rewrite # NoRewrite => at["server"] = "idle"
  BY DEF PlanInv, LoopTypes
<1>1. /\ UNCHANGED <<plans, made>> /\ mishaps \subseteq mishaps'
      /\ at' = [at EXCEPT ![p] = "idle"] /\ cycle' = [cycle EXCEPT ![p] = NoCycle]
      /\ rewrite' = rewrite \/ (rewrite' = NoRewrite /\ p = "server")
      /\ p = "server" => rewrite' = NoRewrite
  BY DEF Restart, End
<1>2. /\ \A q \in Processes : /\ Busy(q)' => Busy(q)
                              /\ at'[q] \in Making => at'[q] = at[q] /\ cycle'[q] = cycle[q]
  BY <1>0, <1>1 DEF Busy, Making
<1>3. LoopTypes'
  <2>1. at' \in [Processes -> CyclePlaces] /\ cycle' \in [Processes -> CycleRecord]
    BY <1>0, <1>1, IdleCycle DEF CyclePlaces
  <2>2. rewrite' # NoRewrite => at'["server"] = "idle"
    BY <1>0, <1>1
  <2> QED
    BY <1>1, <2>1, <2>2 DEF PlanInv, LoopTypes
<1>4. (Calm' => Calm) /\ (Apart' => Apart)
  BY <1>1 DEF Calm, Apart
<1>5. Turns => Turns'
  BY <1>2 DEF Turns
<1> QED
  BY <1>1, <1>2, <1>3, <1>4, <1>5 DEF PlanInv

(* The server reads all plans and truncates the file.                      *)
LEMMA BeginKeepsPlans ==
  ASSUME PlanInv, BeginUpdate
  PROVE  PlanInv'
<1>0. /\ plans \in Seq(PlanRecord) /\ made.plans \in Nat /\ DOMAIN plans = 1 .. Len(plans)
      /\ UNCHANGED <<at, cycle, made>> /\ plans' = <<>> /\ "server" \in Processes
      /\ at["server"] = "idle" /\ rewrite = NoRewrite
  BY LenProperties DEF PlanInv, LoopTypes, BeginUpdate, ServerFree, Processes
<1>1. PICK i \in 1 .. Len(plans), st \in {"approved", "refused", "running", "plan_finished"} :
        /\ st # "approved" => plans[i].status \in OpenPlan
        /\ rewrite' = [plans |-> plans, id |-> plans[i].id, status |-> st]
        /\ mishaps' = mishaps \cup Overlap \cup Noted("revive", plans[i].status \notin OpenPlan)
  BY <1>0 DEF BeginUpdate
<1>2. /\ rewrite' \in Rewriting /\ rewrite'.plans = plans
      /\ rewrite'.id = plans[i].id /\ rewrite'.status = st
  <2>1. plans[i] \in PlanRecord
    BY <1>0
  <2> QED
    BY <1>0, <1>1, <2>1 DEF PlanRecord, Rewriting, PlanStatuses, OpenPlan
<1>3. LoopTypes'
  <2>1. <<>> \in Seq(PlanRecord)
    BY EmptySeq
  <2> QED
    BY <1>0, <1>2, <2>1 DEF PlanInv, LoopTypes
<1>5. Apart' => \A q \in Processes : at'[q] = "idle"
  BY <1>0, <1>1 DEF Apart, Overlap, Noted, Busy
<1>6. Apart' => Turns'
  BY <1>5 DEF Turns, Busy
<1> SUFFICES ASSUME Calm'
             PROVE  /\ Sound(plans', made'.plans)
                    /\ \A q \in Processes : at'[q] \notin Making
                    /\ Sound(rewrite'.plans, made'.plans) /\ Rewrites(rewrite')
  BY <1>3, <1>6 DEF PlanInv
<1>4. Calm /\ Apart' /\ plans[i].status \in OpenPlan
  BY <1>1 DEF Calm, Apart, Noted
<1>7. Sound(plans, made.plans)
  BY <1>4 DEF PlanInv
<1>8. Rewrites(rewrite')
  BY <1>2, <1>4 DEF Rewrites
<1> QED
  BY <1>0, <1>2, <1>4, <1>5, <1>7, <1>8, EmptyIsSound DEF Making

(* The server writes them back, one of them changed.                       *)
LEMMA EndKeepsPlans ==
  ASSUME PlanInv, EndUpdate
  PROVE  PlanInv'
<1> DEFINE new == [i \in DOMAIN rewrite.plans |->
                     IF rewrite.plans[i].id = rewrite.id
                     THEN [rewrite.plans[i] EXCEPT !.status = rewrite.status]
                     ELSE rewrite.plans[i]]
<1>0. /\ rewrite \in Rewriting /\ rewrite # NoRewrite /\ "server" \in Processes
      /\ UNCHANGED <<at, cycle, made, mishaps>> /\ rewrite' = NoRewrite /\ plans' = new
      /\ at["server"] = "idle"
  BY DEF PlanInv, LoopTypes, EndUpdate, Processes
<1>1. /\ Calm => Sound(rewrite.plans, made.plans) /\ Rewrites(rewrite)
      /\ Apart => Turns
  BY <1>0 DEF PlanInv
<1>2. new \in Seq(PlanRecord)
  <2>1. /\ rewrite.plans \in Seq(PlanRecord) /\ rewrite.status \in PlanStatuses
        /\ Len(rewrite.plans) \in Nat /\ DOMAIN rewrite.plans = 1 .. Len(rewrite.plans)
    BY <1>0, LenProperties DEF Rewriting
  <2>2. ASSUME NEW i \in 1 .. Len(rewrite.plans) PROVE new[i] \in PlanRecord
    <3>1. rewrite.plans[i] \in PlanRecord
      BY <2>1
    <3>2. [rewrite.plans[i] EXCEPT !.status = rewrite.status] \in PlanRecord
      BY <2>1, <3>1 DEF PlanRecord
    <3> QED
      BY <2>1, <3>1, <3>2
  <2>3. new = [i \in 1 .. Len(rewrite.plans) |-> new[i]]
    BY <2>1
  <2> HIDE DEF new
  <2> QED
    BY <2>1, <2>2, <2>3
<1>3. Calm => Sound(new, made.plans)
  BY <1>0, <1>1, RewriteIsSound
<1> HIDE DEF new
<1>4. LoopTypes'
  BY <1>0, <1>2 DEF PlanInv, LoopTypes
<1>5. Busy("server") /\ \A q \in Processes : Busy(q)' => Busy(q)
  BY <1>0 DEF Busy
<1>6. Apart => Turns' /\ \A q \in Processes : at'[q] \notin Making
  <2>1. \A q \in Processes : at[q] \in Making => Busy(q) /\ at[q] # "idle"
    BY DEF Making, Busy
  <2> QED
    BY <1>0, <1>1, <1>5, <2>1 DEF Turns
<1>7. (Calm' => Calm) /\ (Apart' => Apart) /\ (Calm => Apart)
  BY <1>0 DEF Calm, Apart
<1> QED
  BY <1>0, <1>3, <1>4, <1>6, <1>7 DEF PlanInv

(* The routes that create, start, close and delete tasks leave the plans.  *)
LEMMA RoutesKeepPlans ==
  ASSUME PlanInv, StartNext \/ CloseTask \/ DeleteTask \/ ClearDone \/ CreateGoalTask
  PROVE  PlanInv'
<1>0. made \in [tasks : Nat, plans : Nat]
  BY DEF PlanInv, LoopTypes
<1>1. UNCHANGED <<plans, rewrite, at, cycle>>
  BY DEF StartNext, CloseTask, DeleteTask, ClearDone, CreateGoalTask, ServerTasks, planVars
<1>2. mishaps \subseteq mishaps'
  <2>1. \A s : Save("server", s) => mishaps \subseteq mishaps'
    BY DEF Save
  <2>2. \E s : Save("server", s)
    BY Zenon DEF StartNext, CloseTask, DeleteTask, ClearDone, CreateGoalTask
  <2> QED
    BY <2>1, <2>2
<1>3. made' = made \/ made' = [made EXCEPT !.tasks = made.tasks + 1]
  BY <1>0 DEF StartNext, CloseTask, DeleteTask, ClearDone, CreateGoalTask
<1>4. made' \in [tasks : Nat, plans : Nat] /\ made'.plans = made.plans
  BY <1>0, <1>3
<1> QED
  BY <1>1, <1>2, <1>4, TasksKeepInv

LEMMA PlanStart == CognitiveInit => PlanInv
<1> SUFFICES ASSUME CognitiveInit PROVE PlanInv
  OBVIOUS
<1>1. LoopTypes
  <2>1. <<>> \in Seq(PlanRecord)
    BY EmptySeq
  <2> QED
    BY <2>1, IdleCycle DEF CognitiveInit, LoopTypes, CyclePlaces, Processes
<1>2. Turns /\ \A p \in Processes : at[p] \notin Making
  BY DEF CognitiveInit, Turns, Busy, Making
<1>3. Sound(plans, made.plans) /\ rewrite = NoRewrite
  BY EmptyIsSound DEF CognitiveInit
<1> QED
  BY <1>1, <1>2, <1>3 DEF PlanInv

LEMMA PlanStep == PlanInv /\ [CognitiveNext]_cognitiveVars => PlanInv'
<1> SUFFICES ASSUME PlanInv, [CognitiveNext]_cognitiveVars PROVE PlanInv'
  OBVIOUS
<1>1. ASSUME NEW p \in Processes,
             \/ Evaluate(p) \/ LookForPlan(p) \/ CreateTask(p)
             \/ LinkTasks(p) \/ SavePlan(p) \/ Restart(p)
      PROVE  PlanInv'
  BY <1>1, EvaluateKeepsPlans, LookKeepsPlans, MakingKeepsPlans, SaveKeepsPlans,
     RestartKeepsPlans
<1>2. CASE StartNext \/ CloseTask \/ DeleteTask \/ ClearDone \/ CreateGoalTask
  BY <1>2, RoutesKeepPlans
<1>3. CASE BeginUpdate
  BY <1>3, BeginKeepsPlans
<1>4. CASE EndUpdate
  BY <1>4, EndKeepsPlans
<1>5. CASE UNCHANGED cognitiveVars
  <2>1. /\ UNCHANGED <<plans, rewrite, at, cycle, mishaps, made>>
        /\ made' \in [tasks : Nat, plans : Nat]
    BY <1>5 DEF cognitiveVars, PlanInv, LoopTypes
  <2> QED
    BY <2>1, TasksKeepInv
<1> QED
  BY <1>1, <1>2, <1>3, <1>4, <1>5 DEF CognitiveNext

(* While the loop and the server took turns at the plans and nobody        *)
(* approved a closed one again, a goal never has two generated plans open  *)
(* among those the executor looks back on (action_executor.py, the check   *)
(* of recent plans; planning/storage.py, update), through restarts of      *)
(* either process at any file access: for any titles and any window.       *)
THEOREM OnePlanInWorkCorrect == CognitiveSpec => []OnePlanInWork
<1>1. PlanInv => OnePlanInWork
  <2> SUFFICES ASSUME PlanInv, mishaps \cap {"overlap", "revive"} = {},
                      NEW i \in Recent, NEW j \in Recent, plans[i].goal = plans[j].goal,
                      {plans[i].status, plans[j].status} \subseteq OpenPlan
               PROVE  i = j
    BY DEF OnePlanInWork
  <2>1. plans \in Seq(PlanRecord) /\ DOMAIN plans = 1 .. Len(plans)
    BY LenProperties DEF PlanInv, LoopTypes
  <2>2. OpenOnce(plans)
    BY DEF PlanInv, Calm, Apart, Sound
  <2> QED
    BY <2>1, <2>2 DEF OpenOnce, RecentOf, Recent
<1> QED
  BY PlanStart, PlanStep, <1>1, PTL DEF CognitiveSpec
-----------------------------------------------------------------------------
(* The tasks of the plans (CognitiveLoop).                                 *)

(* Tasks that may be in a file or a memory when n have been made.          *)
Stored(s, n) ==
  /\ s \in Seq(Task) /\ \A i \in 1 .. Len(s) : s[i].id <= n
  /\ \A i, j \in 1 .. Len(s) : s[i].id = s[j].id => i = j

Has(s, t) == \E i \in 1 .. Len(s) : s[i].id = t

(* The sequence t is what an operation makes of the tasks s when n have    *)
(* been made: of all tasks but those of C it changes the status at most.   *)
KeepsTasks(t, s, C, n) ==
  \A j \in 1 .. Len(t) :
    \/ t[j].id > n \/ t[j].id \in C
    \/ \E i \in 1 .. Len(s) :
         t[j].id = s[i].id /\ t[j].plan = s[i].plan /\ t[j].action = s[i].action

(* Task t is where plan pl says it is.                                     *)
AllLinked(s, t, pl) ==
  \A i \in 1 .. Len(s) : s[i].id = t => s[i].plan = pl /\ s[i].action = TRUE

(* The server may remember a task from before it was linked, but then it   *)
(* would notice to overwrite the task when it saves.                       *)
Agree(t, pl) ==
  /\ AllLinked(file, t, pl) /\ AllLinked(mem["loop"], t, pl)
  /\ AllLinked(mem["server"], t, pl) \/ Has(file, t)

TaskOf(x, t) == \E n \in 1 .. Len(x) : x[n] = t
OwnedIn(s, t, pl) == \E i \in 1 .. Len(s) : s[i].id = pl /\ TaskOf(s[i].tasks, t)
Owns(t, pl) ==
  \/ OwnedIn(plans, t, pl) \/ OwnedIn(rewrite.plans, t, pl)
  \/ \E p \in Processes : at[p] = "save" /\ cycle[p].plan = pl /\ TaskOf(cycle[p].tasks, t)

(* The tasks of the plan p is making are known to p, and belong to no plan *)
(* yet; the loop does not know those of the server.                        *)
InHand(p) ==
  \A t \in Nat : TaskOf(cycle[p].tasks, t) =>
    /\ t <= made.tasks /\ Has(mem[p], t) /\ \A pl \in Nat : ~Owns(t, pl)
    /\ p = "server" => ~Has(mem["loop"], t)

Untroubled == Apart /\ "clobber" \notin mishaps /\ "torn" \notin mishaps

TaskTypes ==
  /\ Stored(file, made.tasks) /\ \A p \in Processes : Stored(mem[p], made.tasks)
  /\ mem \in [Processes -> Seq(Task)] /\ loaded \in [Processes -> BOOLEAN]
  /\ \A p \in Processes : at[p] \in {"idle", "plans"} => cycle[p].tasks = <<>>

LinkInv ==
  /\ TaskTypes
  /\ Untroubled =>
       /\ \A t, pl \in Nat : Owns(t, pl) => t <= made.tasks /\ Agree(t, pl)
       /\ \A p \in Processes : at[p] \in {"tasks", "link"} => loaded[p] /\ InHand(p)

LEMMA EmptyStored == \A n : Stored(<<>>, n)
<1>1. Len(<<>>) = 0 /\ <<>> \in Seq(Task)
  BY EmptySeq
<1> QED
  BY <1>1 DEF Stored

LEMMA KnownStored ==
  ASSUME TaskTypes, NEW p \in Processes
  PROVE  Stored(Known(p), made.tasks)
BY DEF TaskTypes, Known

LEMMA SaveTypes ==
  ASSUME TaskTypes, NEW p \in Processes, NEW s, Save(p, s), Stored(s, made'.tasks),
         made.tasks \in Nat, made'.tasks \in Nat, made.tasks <= made'.tasks
  PROVE  /\ Stored(file', made'.tasks) /\ \A q \in Processes : Stored(mem'[q], made'.tasks)
         /\ mem' \in [Processes -> Seq(Task)] /\ loaded' \in [Processes -> BOOLEAN]
         /\ file' = s /\ mem'[p] = s /\ loaded'[p]
         /\ \A q \in Processes \ {p} : mem'[q] = mem[q] /\ loaded'[q] = loaded[q]
<1>1. /\ mem \in [Processes -> Seq(Task)] /\ loaded \in [Processes -> BOOLEAN]
      /\ mem' = [mem EXCEPT ![p] = s] /\ loaded' = [loaded EXCEPT ![p] = TRUE] /\ file' = s
      /\ s \in Seq(Task)
  BY DEF TaskTypes, Save, Stored
<1>2. /\ mem' \in [Processes -> Seq(Task)] /\ mem'[p] = s
      /\ \A q \in Processes \ {p} : mem'[q] = mem[q]
  BY <1>1
<1>3. /\ loaded' \in [Processes -> BOOLEAN] /\ loaded'[p]
      /\ \A q \in Processes \ {p} : loaded'[q] = loaded[q]
  BY <1>1, Zenon
<1>4. ASSUME NEW q \in Processes \ {p} PROVE Stored(mem[q], made'.tasks)
  <2>1. Stored(mem[q], made.tasks)
    BY DEF TaskTypes
  <2>2. ASSUME NEW i \in 1 .. Len(mem[q]) PROVE mem[q][i].id <= made'.tasks
    <3>1. mem[q][i] \in Task
      BY <2>1 DEF Stored
    <3> QED
      BY <2>1, <3>1, SMTT(30) DEF Stored, Task
  <2> QED
    BY <2>1, <2>2 DEF Stored
<1> QED
  BY <1>1, <1>2, <1>3, <1>4

(* What is saved without overwriting anything unknown agrees with a plan   *)
(* as what was known did.                                                  *)
LEMMA SaveAgrees ==
  ASSUME TaskTypes, NEW p \in Processes, NEW s, NEW C, Save(p, s), "clobber" \notin mishaps',
         mem' = [mem EXCEPT ![p] = s], KeepsTasks(s, Known(p), C, made.tasks),
         p = "loop" => \A t \in Nat : Has(Known(p), t) => Has(s, t),
         NEW t \in Nat, NEW pl, t <= made.tasks, t \notin C, Agree(t, pl),
         made.tasks \in Nat, s \in Seq(Task)
  PROVE  Agree(t, pl)'
<1> DEFINE known == Known(p)
<1>0. Stored(known, made.tasks) /\ Stored(file, made.tasks)
  BY KnownStored DEF TaskTypes
<1>1. \A i \in 1 .. Len(file) : \E j \in 1 .. Len(known) : known[j] = file[i]
  <2>1. DOMAIN file = 1 .. Len(file) /\ DOMAIN known = 1 .. Len(known)
    BY <1>0, LenProperties DEF Stored
  <2>2. ~ \E i \in DOMAIN file : \A j \in DOMAIN known : known[j] # file[i]
    BY DEF Save, Noted
  <2> QED
    BY <2>1, <2>2
<1>2. AllLinked(known, t, pl)
  <2>1. CASE ~loaded[p]
    BY <2>1 DEF Known, Agree
  <2>2. CASE loaded[p] /\ AllLinked(mem[p], t, pl)
    BY <2>2 DEF Known
  <2>3. CASE Has(file, t)
    <3>1. PICK i \in 1 .. Len(file) : file[i].id = t
      BY <2>3 DEF Has
    <3>2. PICK j \in 1 .. Len(known) : known[j] = file[i]
      BY <1>1
    <3>3. file[i].plan = pl /\ file[i].action = TRUE
      BY <3>1 DEF Agree, AllLinked
    <3> QED
      BY <1>0, <3>1, <3>2, <3>3 DEF AllLinked, Stored
  <2> QED
    BY <2>1, <2>2, <2>3 DEF Agree, Processes
<1>3. AllLinked(s, t, pl)
  <2> SUFFICES ASSUME NEW j \in 1 .. Len(s), s[j].id = t
               PROVE  s[j].plan = pl /\ s[j].action = TRUE
    BY DEF AllLinked
  <2>1. PICK i \in 1 .. Len(known) :
          s[j].id = known[i].id /\ s[j].plan = known[i].plan /\ s[j].action = known[i].action
    BY DEF KeepsTasks
  <2> QED
    BY <1>2, <2>1 DEF AllLinked
<1>4. file' = s /\ mem'[p] = s /\ \A q \in Processes \ {p} : mem'[q] = mem[q]
  BY DEF Save, TaskTypes
<1>5. CASE p = "server"
  BY <1>3, <1>4, <1>5 DEF Agree, Processes
<1>6. CASE p = "loop"
  <2>1. Has(file, t) => Has(s, t)
    <3> SUFFICES ASSUME Has(file, t) PROVE Has(s, t)
      OBVIOUS
    <3>1. Has(known, t)
      BY <1>1 DEF Has
    <3> QED
      BY <1>6, <3>1
  <2> QED
    BY <1>3, <1>4, <1>6, <2>1 DEF Agree, Processes
<1> QED
  BY <1>5, <1>6 DEF Processes

LEMMA StatusStored ==
  ASSUME NEW s, NEW n, Stored(s, n), NEW x, NEW st \in {"running", "done", "failed"}
  PROVE  LET t == [s EXCEPT ![x].status = st]
         IN Stored(t, n) /\ KeepsTasks(t, s, {}, n)
<1> DEFINE t == [s EXCEPT ![x].status = st]
           e == [s[x] EXCEPT !.status = st]
<1>1. s \in Seq(Task) /\ Len(s) \in Nat /\ DOMAIN s = 1 .. Len(s)
  BY LenProperties DEF Stored
<1>2. x \in 1 .. Len(s) => /\ e \in Task /\ e.id = s[x].id /\ e.plan = s[x].plan
                           /\ e.action = s[x].action
  <2> SUFFICES ASSUME x \in 1 .. Len(s)
               PROVE  /\ e \in Task /\ e.id = s[x].id /\ e.plan = s[x].plan
                      /\ e.action = s[x].action
    OBVIOUS
  <2>1. s[x] \in Task
    BY <1>1
  <2> QED
    BY <2>1 DEF Task
<1>3. t = [i \in 1 .. Len(s) |-> IF i = x THEN e ELSE s[i]]
  BY <1>1
<1> HIDE DEF e, t
<1>4. /\ t \in Seq(Task) /\ Len(t) = Len(s)
      /\ \A i \in 1 .. Len(s) : t[i] = IF i = x THEN e ELSE s[i]
  <2>1. \A i \in 1 .. Len(s) : (IF i = x THEN e ELSE s[i]) \in Task
    BY <1>1, <1>2
  <2> QED
    BY <1>1, <1>3, <2>1
<1>5. ASSUME NEW i \in 1 .. Len(s)
      PROVE  t[i].id = s[i].id /\ t[i].plan = s[i].plan /\ t[i].action = s[i].action
  <2>1. CASE i = x
    BY <1>2, <1>4, <2>1
  <2>2. CASE i # x
    BY <1>4, <2>2
  <2> QED
    BY <2>1, <2>2
<1>6. Stored(t, n)
  BY <1>4, <1>5 DEF Stored
<1>7. KeepsTasks(t, s, {}, n)
  BY <1>4, <1>5, Zenon DEF KeepsTasks
<1> QED
  BY <1>6, <1>7 DEF t

LEMMA PickedStored ==
  ASSUME NEW s, NEW n, Stored(s, n), NEW t \in Seq(Task), NEW h,
         \A j \in 1 .. Len(t) : h[j] \in 1 .. Len(s) /\ t[j] = s[h[j]],
         \A j, k \in 1 .. Len(t) : h[j] = h[k] => j = k
  PROVE  Stored(t, n) /\ KeepsTasks(t, s, {}, n)
<1>1. Stored(t, n)
  <2>1. ASSUME NEW i \in 1 .. Len(t), NEW j \in 1 .. Len(t), t[i].id = t[j].id
        PROVE  i = j
    <3>1. s[h[i]].id = s[h[j]].id
      BY <2>1
    <3>2. h[i] = h[j]
      BY <3>1 DEF Stored
    <3> QED
      BY <3>2
  <2>2. \A i \in 1 .. Len(t) : t[i].id <= n
    BY DEF Stored
  <2> QED
    BY <2>1, <2>2 DEF Stored
<1>2. KeepsTasks(t, s, {}, n)
  BY Zenon DEF KeepsTasks
<1> QED
  BY <1>1, <1>2

LEMMA AppendStored ==
  ASSUME NEW s, NEW n \in Nat, Stored(s, n), NEW x \in Task, x.id = n + 1
  PROVE  LET t == Append(s, x)
         IN /\ Stored(t, n + 1) /\ KeepsTasks(t, s, {}, n) /\ Len(t) = Len(s) + 1
            /\ t[Len(s) + 1] = x /\ \A i \in 1 .. Len(s) : t[i] = s[i]
<1> DEFINE t == Append(s, x)
           l == Len(s)
<1>1. /\ s \in Seq(Task) /\ l \in Nat
      /\ t \in Seq(Task) /\ Len(t) = l + 1 /\ t[l + 1] = x
      /\ \A i \in 1 .. l : t[i] = s[i]
  BY AppendProperties, LenProperties DEF Stored
<1> HIDE DEF t
<1>2. \A i \in 1 .. l : t[i].id \in Nat /\ t[i].id <= n
  <2> SUFFICES ASSUME NEW i \in 1 .. l PROVE t[i].id \in Nat /\ t[i].id <= n
    OBVIOUS
  <2>1. s[i] \in Task
    BY <1>1
  <2> QED
    BY <1>1, <2>1 DEF Stored, Task
<1>3. \A i \in 1 .. l + 1 : i \in 1 .. l \/ i = l + 1
  BY <1>1
<1>4. Stored(t, n + 1)
  <2>1. \A i \in 1 .. Len(t) : t[i].id <= n + 1
    BY <1>1, <1>2, <1>3
  <2>2. ASSUME NEW i \in 1 .. Len(t), NEW j \in 1 .. Len(t), t[i].id = t[j].id
        PROVE  i = j
    <3>1. CASE i \in 1 .. l /\ j \in 1 .. l
      BY <1>1, <2>2, <3>1 DEF Stored
    <3>2. CASE i = l + 1 \/ j = l + 1
      BY <1>1, <1>2, <1>3, <2>2, <3>2
    <3> QED
      BY <1>1, <1>3, <3>1, <3>2
  <2> QED
    BY <1>1, <2>1, <2>2 DEF Stored
<1>5. KeepsTasks(t, s, {}, n)
  <2> SUFFICES ASSUME NEW j \in 1 .. l + 1
               PROVE  \/ t[j].id > n
                      \/ \E i \in 1 .. Len(s) : /\ t[j].id = s[i].id /\ t[j].plan = s[i].plan
                                                /\ t[j].action = s[i].action
    BY <1>1, Zenon DEF KeepsTasks
  <2>1. CASE j = l + 1
    BY <1>1, <2>1
  <2>2. CASE j \in 1 .. l
    <3>1. t[j] = s[j]
      BY <1>1, <2>2
    <3> QED
      BY <2>2, <3>1
  <2> QED
    BY <1>3, <2>1, <2>2
<1> QED
  BY <1>1, <1>4, <1>5 DEF t

(* A save of the server while no cycle of its own is going on.             *)
LEMMA ServerSaveKeepsLinks ==
  ASSUME PlanInv, LinkInv, NEW s, Save("server", s), UNCHANGED <<plans, rewrite, at, cycle>>,
         at["server"] = "idle", KeepsTasks(s, Known("server"), {}, made.tasks),
         made' \in [tasks : Nat, plans : Nat], made.tasks <= made'.tasks, Stored(s, made'.tasks)
  PROVE  LinkInv'
<1>0. /\ made.tasks \in Nat /\ made'.tasks \in Nat /\ TaskTypes /\ "server" \in Processes
      /\ "loop" \in Processes \ {"server"} /\ mem' = [mem EXCEPT !["server"] = s]
      /\ s \in Seq(Task)
  BY DEF PlanInv, LoopTypes, LinkInv, Processes, Save, Stored
<1>1. /\ Stored(file', made'.tasks) /\ \A q \in Processes : Stored(mem'[q], made'.tasks)
      /\ mem' \in [Processes -> Seq(Task)] /\ loaded' \in [Processes -> BOOLEAN]
      /\ \A q \in Processes \ {"server"} : mem'[q] = mem[q] /\ loaded'[q] = loaded[q]
  BY <1>0, SaveTypes
<1>2. TaskTypes'
  BY <1>0, <1>1 DEF TaskTypes
<1> SUFFICES ASSUME Untroubled'
             PROVE  /\ \A t, pl \in Nat : Owns(t, pl)' => t <= made'.tasks /\ Agree(t, pl)'
                    /\ \A p \in Processes : at'[p] \in {"tasks", "link"} => loaded'[p] /\ InHand(p)'
  BY <1>2 DEF LinkInv
<1>3. Untroubled /\ "clobber" \notin mishaps'
  BY DEF Untroubled, Apart, Save
<1>4. \A t, pl \in Nat : Owns(t, pl)' <=> Owns(t, pl)
  BY DEF Owns
<1>5. ASSUME NEW t \in Nat, NEW pl \in Nat, Owns(t, pl)
      PROVE  t <= made'.tasks /\ Agree(t, pl)'
  <2>1. t <= made.tasks /\ Agree(t, pl)
    BY <1>3, <1>5 DEF LinkInv
  <2>2. "server" = "loop" => \A u \in Nat : Has(Known("server"), u) => Has(s, u)
    OBVIOUS
  <2>3. t \notin {}
    OBVIOUS
  <2>4. Agree(t, pl)'
    BY <1>0, <1>3, <2>1, <2>2, <2>3, SaveAgrees, Zenon
  <2> QED
    BY <1>0, <2>1, <2>4
<1>6. ASSUME NEW p \in Processes, at[p] \in {"tasks", "link"}
      PROVE  loaded'[p] /\ InHand(p)'
  <2>1. p = "loop" /\ p # "server" /\ loaded[p] /\ InHand(p)
    BY <1>3, <1>6 DEF LinkInv, Processes
  <2>2. mem'[p] = mem[p] /\ loaded'[p] = loaded[p] /\ cycle'[p] = cycle[p]
    BY <1>1, <2>1
  <2>3. ASSUME NEW t \in Nat, TaskOf(cycle[p].tasks, t)
        PROVE  t <= made'.tasks /\ Has(mem[p], t) /\ \A pl \in Nat : ~Owns(t, pl)'
    BY <1>0, <1>4, <2>1, <2>3 DEF InHand
  <2> QED
    BY <2>1, <2>2, <2>3 DEF InHand
<1> QED
  BY <1>4, <1>5, <1>6

LEMMA NewTaskIs ==
  ASSUME made.tasks \in Nat, NEW title \in TaskTitles
  PROVE  /\ NewTask(title, 0, FALSE) \in Task
         /\ NewTask(title, 0, FALSE).id = made.tasks + 1
BY DEF NewTask, Task

LEMMA RoutesKeepLinks ==
  ASSUME PlanInv, LinkInv, StartNext \/ CloseTask \/ DeleteTask \/ ClearDone \/ CreateGoalTask
  PROVE  LinkInv'
<1> DEFINE s == Known("server")
           l == Len(s)
<1>0. /\ made \in [tasks : Nat, plans : Nat] /\ made.tasks \in Nat /\ TaskTypes
      /\ Stored(s, made.tasks) /\ s \in Seq(Task) /\ DOMAIN s = 1 .. l /\ l \in Nat
      /\ "server" \in Processes
  <2>1. Stored(s, made.tasks)
    BY KnownStored DEF LinkInv, Processes
  <2> QED
    BY <2>1, LenProperties DEF PlanInv, LoopTypes, LinkInv, Stored, Processes
<1>1. UNCHANGED <<plans, rewrite, at, cycle>> /\ at["server"] = "idle"
  BY DEF StartNext, CloseTask, DeleteTask, ClearDone, CreateGoalTask, ServerTasks, planVars,
         ServerFree
<1> SUFFICES \E t : /\ Save("server", t) /\ KeepsTasks(t, s, {}, made.tasks)
                    /\ made' \in [tasks : Nat, plans : Nat] /\ made.tasks <= made'.tasks
                    /\ Stored(t, made'.tasks)
  BY <1>1, ServerSaveKeepsLinks
<1>2. made' = made => /\ made' \in [tasks : Nat, plans : Nat] /\ made.tasks <= made'.tasks
                      /\ made'.tasks = made.tasks
  BY <1>0
<1> HIDE DEF s
<1>3. CASE StartNext \/ CloseTask
  <2>1. PICK x, st : /\ st \in {"running", "done", "failed"}
                      /\ Save("server", [s EXCEPT ![x].status = st]) /\ made' = made
    <3>1. CASE StartNext
      <4>1. Save("server", [s EXCEPT ![NextTask(s)].status = "running"]) /\ made' = made
        BY <3>1 DEF StartNext, s
      <4> QED
        BY <4>1, Zenon
    <3>2. CASE CloseTask
      <4>1. /\ \E i \in DOMAIN s, st \in {"done", "failed"} :
                 Save("server", [s EXCEPT ![i].status = st])
            /\ made' = made
        BY <3>2, Zenon DEF CloseTask, s
      <4> QED
        BY <4>1, Zenon
    <3> QED
      BY <1>3, <3>1, <3>2
  <2> QED
    BY <1>0, <1>2, <2>1, StatusStored
<1>4. CASE DeleteTask
  <2>1. PICK i \in 1 .. l :
          Save("server", SubSeq(s, 1, i - 1) \o SubSeq(s, i + 1, l)) /\ made' = made
    BY <1>0, <1>4 DEF DeleteTask, s
  <2> DEFINE a == SubSeq(s, 1, i - 1)
             b == SubSeq(s, i + 1, l)
             t == a \o b
             h == [j \in 1 .. l - 1 |-> IF j < i THEN j ELSE j + 1]
  <2>2. /\ a \in Seq(Task) /\ Len(a) = i - 1
        /\ \A j \in 1 .. i - 1 : a[j] = s[j]
    <3>1. \A j \in 1 .. i - 1 : s[j] \in Task
      BY <1>0
    <3>2. i - 1 \in Int /\ 1 \in Int
      BY <1>0
    <3>3. /\ a \in Seq(Task)
          /\ Len(a) = IF 1 <= i - 1 THEN i - 1 - 1 + 1 ELSE 0
          /\ \A j \in 1 .. i - 1 - 1 + 1 : a[j] = s[1 + j - 1]
      BY <3>1, <3>2, SubSeqProperties
    <3>4. i - 1 - 1 + 1 = i - 1 /\ \A j \in 1 .. i - 1 : 1 + j - 1 = j
      BY <1>0
    <3>5. Len(a) = i - 1
      BY <1>0, <3>3, <3>4
    <3> QED
      BY <3>3, <3>4, <3>5
  <2>3. /\ b \in Seq(Task) /\ Len(b) = l - i
        /\ \A j \in 1 .. l - i : b[j] = s[i + j]
    <3>1. \A j \in i + 1 .. l : s[j] \in Task
      BY <1>0
    <3>2. i + 1 \in Int /\ l \in Int
      BY <1>0
    <3>3. /\ b \in Seq(Task)
          /\ Len(b) = IF i + 1 <= l THEN l - (i + 1) + 1 ELSE 0
          /\ \A j \in 1 .. l - (i + 1) + 1 : b[j] = s[i + 1 + j - 1]
      BY <3>1, <3>2, SubSeqProperties
    <3>4. /\ l - (i + 1) + 1 = l - i /\ (i + 1 <= l <=> i < l)
          /\ \A j \in 1 .. l - i : i + 1 + j - 1 = i + j
      BY <1>0
    <3>5. Len(b) = l - i
      <4>1. CASE i + 1 <= l
        BY <3>3, <3>4, <4>1
      <4>2. CASE ~(i + 1 <= l)
        <5>1. Len(b) = 0
          BY <3>3, <4>2
        <5>2. i \in Int /\ l \in Int /\ i <= l
          BY <1>0
        <5>3. i = l
          BY <4>2, <5>2
        <5> QED
          BY <5>1, <5>2, <5>3
      <4> QED
        BY <4>1, <4>2
    <3> QED
      BY <3>3, <3>4, <3>5
  <2> HIDE DEF a, b
  <2>4. /\ t \in Seq(Task) /\ Len(t) = l - 1
        /\ \A j \in 1 .. l - 1 : t[j] = IF j <= i - 1 THEN a[j] ELSE b[j - (i - 1)]
    <3>1. /\ t \in Seq(Task) /\ Len(t) = Len(a) + Len(b)
          /\ \A j \in 1 .. Len(a) + Len(b) : t[j] = IF j <= Len(a) THEN a[j] ELSE b[j - Len(a)]
      BY <2>2, <2>3, ConcatProperties
    <3>2. Len(a) + Len(b) = l - 1
      BY <1>0, <2>2, <2>3
    <3> QED
      BY <2>2, <3>1, <3>2
  <2> HIDE DEF t
  <2>5. \A j \in 1 .. Len(t) : h[j] \in 1 .. l /\ t[j] = s[h[j]]
    <3> SUFFICES ASSUME NEW j \in 1 .. l - 1 PROVE h[j] \in 1 .. l /\ t[j] = s[h[j]]
      BY <2>4
    <3>1. CASE j < i
      BY <1>0, <2>2, <2>4, <3>1
    <3>2. CASE ~(j < i)
      <4>1. h[j] = j + 1 /\ j + 1 \in 1 .. l /\ t[j] = b[j - (i - 1)]
        BY <1>0, <2>4, <3>2
      <4>2. j - (i - 1) \in 1 .. l - i /\ i + (j - (i - 1)) = j + 1
        BY <1>0, <3>2
      <4> QED
        BY <2>3, <4>1, <4>2
    <3> QED
      BY <3>1, <3>2
  <2>6. \A j, k \in 1 .. Len(t) : h[j] = h[k] => j = k
    BY <1>0, <2>4
  <2> HIDE DEF h
  <2>7. Stored(t, made.tasks) /\ KeepsTasks(t, s, {}, made.tasks)
    BY <1>0, <2>4, <2>5, <2>6, PickedStored
  <2> QED
    BY <1>2, <2>1, <2>7 DEF t, a, b
<1>5. CASE ClearDone
  <2> DEFINE kept == {i \in DOMAIN s : s[i].status # "done"}
  <2>1. PICK h \in [1 .. Cardinality(kept) -> kept] :
          /\ \A i, j \in DOMAIN h : i < j => h[i] < h[j]
          /\ Save("server", [i \in DOMAIN h |-> s[h[i]]]) /\ made' = made
    BY <1>5 DEF ClearDone, s
  <2>2. kept \subseteq 1 .. l /\ Cardinality(kept) \in Nat
    <3>1. kept \subseteq 1 .. l
      BY <1>0
    <3>2. IsFiniteSet(1 .. l)
      BY <1>0, FS_Interval
    <3> QED
      BY <3>1, <3>2, FS_Subset, FS_CardinalityType
  <2> DEFINE m == Cardinality(kept)
             t == [i \in 1 .. m |-> s[h[i]]]
  <2>3. h \in [1 .. m -> 1 .. l] /\ m \in Nat /\ DOMAIN h = 1 .. m
    BY <2>1, <2>2
  <2> HIDE DEF kept, m
  <2>4. /\ t \in Seq(Task) /\ Len(t) = m /\ \A i \in 1 .. m : t[i] = s[h[i]]
    <3>1. ASSUME NEW i \in 1 .. m PROVE s[h[i]] \in Task
      <4>1. h[i] \in 1 .. l
        BY <2>3
      <4> QED
        BY <1>0, <4>1
    <3> QED
      BY <2>3, <3>1
  <2>5. \A i, j \in 1 .. m : h[i] = h[j] => i = j
    <3> SUFFICES ASSUME NEW i \in 1 .. m, NEW j \in 1 .. m, h[i] = h[j] PROVE i = j
      OBVIOUS
    <3>1. h[i] \in 1 .. l /\ h[j] \in 1 .. l
      BY <2>3
    <3>2. (i < j => h[i] < h[j]) /\ (j < i => h[j] < h[i])
      BY <2>1, <2>3
    <3> QED
      BY <2>3, <3>1, <3>2
  <2>6. \A i \in 1 .. m : h[i] \in 1 .. l
    BY <2>3
  <2>7. Save("server", t) /\ made' = made
    BY <2>1, <2>3
  <2> HIDE DEF t
  <2>8. Stored(t, made.tasks) /\ KeepsTasks(t, s, {}, made.tasks)
    <3>1. /\ \A i \in 1 .. Len(t) : h[i] \in 1 .. Len(s) /\ t[i] = s[h[i]]
          /\ \A i, j \in 1 .. Len(t) : h[i] = h[j] => i = j
      BY <2>4, <2>5, <2>6
    <3> QED
      BY <1>0, <2>4, <3>1, PickedStored
  <2> QED
    BY <1>2, <2>7, <2>8
<1>6. CASE CreateGoalTask
  <2>1. PICK g \in CycleGoals :
          /\ Save("server", Append(s, NewTask(g, 0, FALSE)))
          /\ made' = [made EXCEPT !.tasks = made.tasks + 1]
    BY <1>0, <1>6 DEF CreateGoalTask, s
  <2>2. made' \in [tasks : Nat, plans : Nat] /\ made'.tasks = made.tasks + 1
    BY <1>0, <2>1
  <2>3. /\ NewTask(g, 0, FALSE) \in Task
        /\ NewTask(g, 0, FALSE).id = made.tasks + 1
    BY <1>0, NewTaskIs DEF TaskTitles
  <2>4. /\ Stored(Append(s, NewTask(g, 0, FALSE)), made.tasks + 1)
        /\ KeepsTasks(Append(s, NewTask(g, 0, FALSE)), s, {}, made.tasks)
    BY <1>0, <2>3, AppendStored
  <2>5. made.tasks <= made'.tasks
    BY <1>0, <2>2
  <2> QED
    BY <2>1, <2>2, <2>4, <2>5
<1> QED
  BY <1>3, <1>4, <1>5, <1>6

LEMMA NoTaskOfEmpty == \A t : ~TaskOf(<<>>, t)
<1>1. Len(<<>>) = 0
  BY EmptySeq
<1> QED
  BY <1>1 DEF TaskOf

(* A step that leaves the tasks, and at which no plan gains any.           *)
LEMMA PlansMoveKeepsLinks ==
  ASSUME LinkInv, UNCHANGED <<file, mem, loaded>>, made'.tasks = made.tasks,
         mishaps \subseteq mishaps', \A t, pl \in Nat : Owns(t, pl)' => Owns(t, pl),
         \A p \in Processes : at'[p] \in {"tasks", "link"} =>
           at[p] = at'[p] /\ cycle'[p] = cycle[p],
         \A p \in Processes : at'[p] \in {"idle", "plans"} => cycle'[p].tasks = <<>>
  PROVE  LinkInv'
<1>1. TaskTypes'
  BY DEF LinkInv, TaskTypes
<1>2. Untroubled' => Untroubled
  BY DEF Untroubled, Apart
<1>3. \A t, pl : Agree(t, pl)' <=> Agree(t, pl)
  BY DEF Agree
<1>4. ASSUME NEW p \in Processes, at'[p] = at[p], cycle'[p] = cycle[p], InHand(p)
      PROVE  InHand(p)'
  BY <1>4 DEF InHand
<1> QED
  BY <1>1, <1>2, <1>3, <1>4 DEF LinkInv

(* A process gets a TaskManager, which reads the file.                     *)
LEMMA RememberKeepsLinks ==
  ASSUME LinkInv, NEW p \in Processes, Remember(p), UNCHANGED file, made'.tasks = made.tasks,
         mishaps \subseteq mishaps', \A t, pl \in Nat : Owns(t, pl)' => Owns(t, pl),
         \A q \in Processes : Untroubled' /\ at'[q] \in {"tasks", "link"} =>
           q = p /\ cycle'[q].tasks = <<>>,
         \A q \in Processes : at'[q] \in {"idle", "plans"} => cycle'[q].tasks = <<>>
  PROVE  LinkInv'
<1>0. TaskTypes /\ Stored(Known(p), made.tasks)
  BY KnownStored DEF LinkInv
<1>1. /\ mem' \in [Processes -> Seq(Task)] /\ mem'[p] = Known(p)
      /\ \A q \in Processes \ {p} : mem'[q] = mem[q]
  <2>1. mem' = [mem EXCEPT ![p] = Known(p)] /\ Known(p) \in Seq(Task)
    BY <1>0 DEF Remember, Stored
  <2> QED
    BY <1>0, <2>1 DEF TaskTypes
<1>2. loaded' \in [Processes -> BOOLEAN] /\ loaded'[p]
  <2>1. loaded' = [loaded EXCEPT ![p] = TRUE] /\ loaded \in [Processes -> BOOLEAN]
    BY <1>0 DEF Remember, TaskTypes
  <2> QED
    BY <2>1, Zenon
<1>3. TaskTypes'
  BY <1>0, <1>1, <1>2 DEF TaskTypes
<1>4. Untroubled' => Untroubled
  BY DEF Untroubled, Apart
<1>5. ASSUME NEW t, NEW pl, Agree(t, pl)
      PROVE  Agree(t, pl)'
  <2>1. mem'[p] = mem[p] \/ mem'[p] = file
    BY <1>1 DEF Known
  <2>2. CASE p = "loop"
    BY <1>1, <1>5, <2>1, <2>2 DEF Agree, Processes
  <2>3. CASE p = "server"
    BY <1>1, <1>5, <2>1, <2>3 DEF Agree, Processes
  <2> QED
    BY <2>2, <2>3 DEF Processes
<1>6. \A q \in Processes : cycle'[q].tasks = <<>> => InHand(q)'
  BY NoTaskOfEmpty DEF InHand
<1> QED
  BY <1>2, <1>3, <1>4, <1>5, <1>6 DEF LinkInv

LEMMA EvaluateKeepsLinks ==
  ASSUME PlanInv, LinkInv, NEW p \in Processes, Evaluate(p)
  PROVE  LinkInv'
<1>0. /\ at \in [Processes -> CyclePlaces] /\ cycle \in [Processes -> CycleRecord]
      /\ made \in [tasks : Nat, plans : Nat] /\ made.tasks \in Nat /\ TaskTypes
  BY DEF PlanInv, LoopTypes, LinkInv
<1>1. PICK goal \in CycleGoals \cup {NoGoal}, governed \in Modes3 :
        LET missing == IF p = "server" /\ goal # NoGoal
                       THEN Proposed(governed) \ Titles(Known(p)) ELSE {}
        IN /\ ~Busy(p)
           /\ \/ missing # {} /\ AddTasks(p, missing) /\ at' = at /\ cycle' = cycle
              \/ /\ IF p = "server" THEN Remember(p) ELSE UNCHANGED <<mem, loaded>>
                 /\ ActOnDecision(p, IF p = "server" THEN Known(p) ELSE file, goal, governed)
                 /\ mishaps' = mishaps \cup Overlap
                 /\ UNCHANGED <<file, made>>
           /\ UNCHANGED planVars
  BY Zenon DEF Evaluate
<1> DEFINE missing == IF p = "server" /\ goal # NoGoal
                      THEN Proposed(governed) \ Titles(Known(p)) ELSE {}
<1>2. UNCHANGED <<plans, rewrite>> /\ at[p] = "idle"
  BY <1>1 DEF planVars, Busy
<1>3. CASE missing # {} /\ AddTasks(p, missing) /\ at' = at /\ cycle' = cycle
  <2>1. p = "server" /\ missing \subseteq CoreHigh \cup CoreMedium
    BY <1>3 DEF Proposed, Modes3
  <2>2. Cardinality(missing) \in Nat
    <3>1. IsFiniteSet(CoreHigh \cup CoreMedium)
      BY CognitiveAssumption, FS_Union
    <3> QED
      BY <2>1, <3>1, FS_Subset, FS_CardinalityType
  <2> DEFINE m == Cardinality(missing)
             s == Known(p)
             l == Len(s)
             n == made.tasks
  <2>3. PICK order \in [1 .. m -> missing] :
          Save(p, s \o [i \in DOMAIN order |->
                          [NewTask(order[i], 0, FALSE) EXCEPT !.id = made.tasks + i]])
    BY <1>3, Zenon DEF AddTasks
  <2> DEFINE new == [i \in 1 .. m |-> [NewTask(order[i], 0, FALSE) EXCEPT !.id = n + i]]
             t == s \o new
  <2>4. /\ m \in Nat /\ n \in Nat /\ l \in Nat /\ Stored(s, n) /\ s \in Seq(Task)
    BY <1>0, <2>2, KnownStored, LenProperties DEF Stored
  <2>5. Save("server", t)
    <3>1. new = [i \in DOMAIN order |-> [NewTask(order[i], 0, FALSE) EXCEPT !.id = made.tasks + i]]
      OBVIOUS
    <3> QED
      BY <2>1, <2>3, <3>1
  <2>6. made' = [made EXCEPT !.tasks = made.tasks + m]
    BY <1>3 DEF AddTasks
  <2> HIDE DEF missing, m, n
  <2>7. ASSUME NEW i \in 1 .. m PROVE new[i] \in Task /\ new[i].id = n + i
    <3>1. order[i] \in TaskTitles
      BY <2>1 DEF TaskTitles
    <3>2. NewTask(order[i], 0, FALSE) \in Task
      BY <1>0, <3>1, NewTaskIs
    <3>3. n + i \in Nat
      BY <2>4
    <3>4. new[i] = [NewTask(order[i], 0, FALSE) EXCEPT !.id = n + i]
      OBVIOUS
    <3> QED
      BY <3>2, <3>3, <3>4 DEF Task
  <2>8. new \in Seq(Task) /\ Len(new) = m
    <3>1. new = [i \in 1 .. m |-> new[i]]
      OBVIOUS
    <3>2. \A i \in 1 .. m : new[i] \in Task
      BY <2>7
    <3> HIDE DEF new
    <3>3. new \in [1 .. m -> Task]
      BY <3>1, <3>2
    <3> QED
      BY <2>4, <3>3
  <2> HIDE DEF new, s
  <2>9. /\ t \in Seq(Task) /\ Len(t) = l + m
        /\ \A i \in 1 .. l + m : t[i] = IF i <= l THEN s[i] ELSE new[i - l]
    <3>1. /\ t \in Seq(Task) /\ Len(t) = Len(s) + Len(new)
          /\ \A i \in 1 .. Len(s) + Len(new) : t[i] = IF i <= Len(s) THEN s[i] ELSE new[i - Len(s)]
      BY <2>4, <2>8, ConcatProperties
    <3> QED
      BY <2>8, <3>1
  <2> HIDE DEF t
  <2>10. ASSUME NEW i \in 1 .. l + m
         PROVE  /\ i <= l => i \in 1 .. l /\ t[i] = s[i] /\ t[i].id \in Nat /\ t[i].id <= n
                /\ ~(i <= l) => i - l \in 1 .. m /\ t[i].id = n + (i - l)
    <3>1. CASE i <= l
      <4>1. i \in 1 .. l /\ t[i] = s[i]
        BY <2>4, <2>9, <3>1
      <4>2. s[i] \in Task /\ s[i].id <= n
        BY <2>4, <4>1 DEF Stored
      <4> QED
        BY <3>1, <4>1, <4>2 DEF Task
    <3>2. CASE ~(i <= l)
      <4>1. i - l \in 1 .. m /\ t[i] = new[i - l]
        BY <2>4, <2>9, <3>2
      <4> QED
        BY <2>7, <3>2, <4>1
    <3> QED
      BY <3>1, <3>2
  <2>11. Stored(t, n + m)
    <3>1. \A i \in 1 .. l + m : t[i].id <= n + m
      BY <2>4, <2>10
    <3>2. ASSUME NEW i \in 1 .. l + m, NEW j \in 1 .. l + m, t[i].id = t[j].id
          PROVE  i = j
      <4>1. CASE i <= l /\ j <= l
        BY <2>4, <2>10, <3>2, <4>1 DEF Stored
      <4>2. CASE ~(i <= l) /\ ~(j <= l)
        <5>1. n + (i - l) = n + (j - l)
          BY <2>10, <3>2, <4>2
        <5> QED
          BY <2>4, <5>1
      <4>3. CASE i <= l /\ ~(j <= l)
        <5>1. /\ t[j].id = n + (j - l) /\ j - l \in 1 .. m
              /\ t[i].id <= n /\ t[i].id \in Nat
          BY <2>10, <4>3
        <5> QED
          BY <2>4, <3>2, <5>1
      <4>4. CASE ~(i <= l) /\ j <= l
        <5>1. /\ t[i].id = n + (i - l) /\ i - l \in 1 .. m
              /\ t[j].id <= n /\ t[j].id \in Nat
          BY <2>10, <4>4
        <5> QED
          BY <2>4, <3>2, <5>1
      <4> QED
        BY <4>1, <4>2, <4>3, <4>4
    <3> QED
      BY <2>9, <3>1, <3>2 DEF Stored
  <2>12. KeepsTasks(t, s, {}, n)
    <3> SUFFICES ASSUME NEW j \in 1 .. l + m
                 PROVE  \/ t[j].id > n
                        \/ \E i \in 1 .. Len(s) : /\ t[j].id = s[i].id /\ t[j].plan = s[i].plan
                                                  /\ t[j].action = s[i].action
      BY <2>9, Zenon DEF KeepsTasks
    <3>1. CASE j <= l
      BY <2>10, <3>1
    <3>2. CASE ~(j <= l)
      BY <2>4, <2>10, <3>2
    <3> QED
      BY <3>1, <3>2
  <2>13. made' \in [tasks : Nat, plans : Nat] /\ made'.tasks = n + m /\ made.tasks <= made'.tasks
    BY <1>0, <2>4, <2>6 DEF n
  <2> QED
    BY <1>2, <1>3, <2>1, <2>5, <2>11, <2>12, <2>13, ServerSaveKeepsLinks DEF n, s
<1>4. CASE /\ IF p = "server" THEN Remember(p) ELSE UNCHANGED <<mem, loaded>>
           /\ ActOnDecision(p, IF p = "server" THEN Known(p) ELSE file, goal, governed)
           /\ mishaps' = mishaps \cup Overlap
           /\ UNCHANGED <<file, made>>
  <2> DEFINE c == [cycle[p] EXCEPT !.goal = goal]
  <2>1. \/ at' = [at EXCEPT ![p] = "plans"] /\ cycle' = [cycle EXCEPT ![p] = c]
        \/ at' = at /\ cycle' = cycle
    <3>1. \/ at' = [at EXCEPT ![p] = "plans"] /\ cycle' = [cycle EXCEPT ![p].goal = goal]
          \/ UNCHANGED <<at, cycle>>
      BY <1>4 DEF ActOnDecision
    <3> QED
      BY <3>1
  <2>2. c.tasks = cycle[p].tasks
    <3>1. cycle[p] \in CycleRecord
      BY <1>0
    <3> QED
      BY <3>1 DEF CycleRecord
  <2> HIDE DEF c
  <2>3. /\ \A q \in Processes : /\ cycle'[q].tasks = cycle[q].tasks
                                /\ q # p => at'[q] = at[q] /\ cycle'[q] = cycle[q]
        /\ at'[p] \in {"idle", "plans"}
    BY <1>0, <1>2, <2>1, <2>2
  <2>4. \A q \in Processes : at'[q] \in {"idle", "plans"} => cycle'[q].tasks = <<>>
    <3>1. \A q \in Processes : at[q] \in {"idle", "plans"} => cycle[q].tasks = <<>>
      BY <1>0 DEF TaskTypes
    <3> QED
      BY <1>2, <2>3, <3>1
  <2>5. \A t, pl \in Nat : Owns(t, pl)' => Owns(t, pl)
    <3>1. \A q \in Processes : at'[q] = "save" => at[q] = "save" /\ cycle'[q] = cycle[q]
      BY <2>3
    <3> QED
      BY <1>2, <3>1 DEF Owns
  <2>6. mishaps \subseteq mishaps' /\ made'.tasks = made.tasks /\ file' = file
    BY <1>4
  <2>7. CASE p = "server"
    <3>1. Remember(p)
      BY <1>4, <2>7
    <3>2. Untroubled' => \A q \in Processes : ~Busy(q)
      BY <1>4 DEF Untroubled, Apart, Overlap, Noted
    <3>3. \A q \in Processes : Untroubled' /\ at'[q] \in {"tasks", "link"} =>
            q = p /\ cycle'[q].tasks = <<>>
      BY <2>3, <3>2 DEF Busy
    <3> QED
      BY <2>4, <2>5, <2>6, <3>1, <3>3, RememberKeepsLinks
  <2>8. CASE p # "server"
    <3>1. UNCHANGED <<file, mem, loaded>>
      BY <1>4, <2>8
    <3>2. \A q \in Processes : at'[q] \in {"tasks", "link"} => at[q] = at'[q] /\ cycle'[q] = cycle[q]
      BY <2>3
    <3> QED
      BY <2>4, <2>5, <2>6, <3>1, <3>2, PlansMoveKeepsLinks
  <2> QED
    BY <2>7, <2>8
<1> QED
  BY <1>1, <1>3, <1>4

LEMMA LookKeepsLinks ==
  ASSUME PlanInv, LinkInv, NEW p \in Processes, LookForPlan(p)
  PROVE  LinkInv'
<1>0. /\ at \in [Processes -> CyclePlaces] /\ cycle \in [Processes -> CycleRecord]
      /\ made \in [tasks : Nat, plans : Nat] /\ TaskTypes /\ (Apart => Turns)
      /\ \A q \in Processes : at[q] \in {"idle", "plans"} => cycle[q].tasks = <<>>
  BY DEF PlanInv, LoopTypes, LinkInv, TaskTypes
<1>1. /\ UNCHANGED <<plans, rewrite, file, mishaps>> /\ at[p] = "plans" /\ Busy(p)
      /\ cycle[p].tasks = <<>>
  BY <1>0 DEF LookForPlan, planVars, Busy
<1>2. CASE HasOpenPlan(cycle[p].goal)
  <2>1. /\ at' = [at EXCEPT ![p] = "idle"] /\ cycle' = [cycle EXCEPT ![p] = NoCycle]
        /\ UNCHANGED <<made, mem, loaded>>
    BY <1>2 DEF LookForPlan, End
  <2>2. /\ \A q \in Processes : q # p => at'[q] = at[q] /\ cycle'[q] = cycle[q]
        /\ at'[p] = "idle" /\ cycle'[p].tasks = <<>>
    BY <1>0, <2>1 DEF NoCycle
  <2>3. \A t, pl \in Nat : Owns(t, pl)' => Owns(t, pl)
    <3>1. \A q \in Processes : at'[q] = "save" => at[q] = "save" /\ cycle'[q] = cycle[q]
      BY <2>2
    <3> QED
      BY <1>1, <3>1 DEF Owns
  <2>4. /\ \A q \in Processes : at'[q] \in {"tasks", "link"} => at[q] = at'[q] /\ cycle'[q] = cycle[q]
        /\ \A q \in Processes : at'[q] \in {"idle", "plans"} => cycle'[q].tasks = <<>>
    BY <1>0, <2>2
  <2> QED
    BY <1>1, <2>1, <2>3, <2>4, PlansMoveKeepsLinks
<1>3. CASE ~HasOpenPlan(cycle[p].goal)
  <2> DEFINE c == [cycle[p] EXCEPT !.plan = made.plans + 1]
  <2>1. /\ at' = [at EXCEPT ![p] = "tasks"] /\ cycle' = [cycle EXCEPT ![p] = c]
        /\ made' = [made EXCEPT !.plans = made.plans + 1] /\ Remember(p)
    BY <1>3 DEF LookForPlan
  <2>2. c.tasks = <<>>
    <3>1. cycle[p] \in CycleRecord
      BY <1>0
    <3> QED
      BY <1>1, <3>1 DEF CycleRecord
  <2> HIDE DEF c
  <2>3. /\ \A q \in Processes : q # p => at'[q] = at[q] /\ cycle'[q] = cycle[q]
        /\ at'[p] = "tasks" /\ cycle'[p].tasks = <<>>
    BY <1>0, <2>1, <2>2
  <2>4. \A t, pl \in Nat : Owns(t, pl)' => Owns(t, pl)
    <3>1. \A q \in Processes : at'[q] = "save" => at[q] = "save" /\ cycle'[q] = cycle[q]
      BY <2>3
    <3> QED
      BY <1>1, <3>1 DEF Owns
  <2>5. \A q \in Processes : at'[q] \in {"idle", "plans"} => cycle'[q].tasks = <<>>
    BY <1>0, <2>3
  <2>6. ASSUME NEW q \in Processes, Untroubled', at'[q] \in {"tasks", "link"}
        PROVE  q = p /\ cycle'[q].tasks = <<>>
    <3>1. Turns
      BY <1>0, <1>1, <2>6 DEF Untroubled, Apart
    <3>2. q # p => Busy(q)
      BY <2>3, <2>6 DEF Busy
    <3> QED
      BY <1>1, <2>3, <3>1, <3>2 DEF Turns
  <2>7. made'.tasks = made.tasks
    BY <1>0, <2>1
  <2> QED
    BY <1>1, <2>1, <2>4, <2>5, <2>6, <2>7, RememberKeepsLinks
<1> QED
  BY <1>2, <1>3

(* The tasks C among those remembered are linked to plan pl.               *)
Relink(s, C, pl) ==
  [i \in 1 .. Len(s) |-> IF s[i].id \in C THEN [s[i] EXCEPT !.plan = pl, !.action = TRUE]
                                          ELSE s[i]]

LEMMA RelinkStored ==
  ASSUME NEW s, NEW n, Stored(s, n), NEW C, NEW pl \in Nat
  PROVE  LET t == Relink(s, C, pl)
         IN /\ Stored(t, n) /\ Len(t) = Len(s) /\ KeepsTasks(t, s, C, n)
            /\ \A i \in 1 .. Len(s) :
                 /\ t[i].id = s[i].id
                 /\ s[i].id \in C => t[i].plan = pl /\ t[i].action = TRUE
<1> DEFINE t == Relink(s, C, pl)
           e(i) == [s[i] EXCEPT !.plan = pl, !.action = TRUE]
<1>1. s \in Seq(Task) /\ Len(s) \in Nat
  BY LenProperties DEF Stored
<1>2. ASSUME NEW i \in 1 .. Len(s)
      PROVE  e(i) \in Task /\ e(i).id = s[i].id /\ e(i).plan = pl /\ e(i).action = TRUE
  <2>1. s[i] \in Task
    BY <1>1
  <2> QED
    BY <2>1 DEF Task
<1>3. t = [i \in 1 .. Len(s) |-> IF s[i].id \in C THEN e(i) ELSE s[i]]
  BY DEF Relink
<1>4. /\ t \in Seq(Task) /\ Len(t) = Len(s)
      /\ \A i \in 1 .. Len(s) : t[i] = IF s[i].id \in C THEN e(i) ELSE s[i]
  <2>1. ASSUME NEW i \in 1 .. Len(s)
        PROVE  (IF s[i].id \in C THEN e(i) ELSE s[i]) \in Task
    <3>1. s[i] \in Task
      BY <1>1
    <3>2. e(i) \in Task
      BY <1>2
    <3> HIDE DEF e
    <3> QED
      BY <3>1, <3>2
  <2> HIDE DEF e
  <2>2. t \in [1 .. Len(s) -> Task]
    BY <1>3, <2>1
  <2>3. t \in Seq(Task) /\ Len(t) = Len(s)
    BY <1>1, <2>2
  <2> HIDE DEF t
  <2> QED
    BY <1>3, <2>3
<1> HIDE DEF t, e
<1>5. ASSUME NEW i \in 1 .. Len(s)
      PROVE  /\ t[i].id = s[i].id
             /\ s[i].id \in C => t[i].plan = pl /\ t[i].action = TRUE
             /\ s[i].id \notin C => t[i] = s[i]
  BY <1>2, <1>4
<1>6. Stored(t, n)
  BY <1>4, <1>5 DEF Stored
<1>7. KeepsTasks(t, s, C, n)
  <2> SUFFICES ASSUME NEW j \in 1 .. Len(s)
               PROVE  \/ t[j].id \in C
                      \/ \E i \in 1 .. Len(s) : /\ t[j].id = s[i].id /\ t[j].plan = s[i].plan
                                                /\ t[j].action = s[i].action
    BY <1>4, Zenon DEF KeepsTasks
  <2>1. t[j].id = s[j].id /\ (s[j].id \notin C => t[j] = s[j])
    BY <1>5
  <2> QED
    BY <2>1
<1> QED
  BY <1>4, <1>5, <1>6, <1>7 DEF t

LEMMA SavePlanKeepsLinks ==
  ASSUME PlanInv, LinkInv, NEW p \in Processes, SavePlan(p)
  PROVE  LinkInv'
<1>0. /\ at \in [Processes -> CyclePlaces] /\ cycle \in [Processes -> CycleRecord]
      /\ plans \in Seq(PlanRecord) /\ cycle[p] \in CycleRecord
      /\ \A q \in Processes : at[q] \in {"idle", "plans"} => cycle[q].tasks = <<>>
  BY DEF PlanInv, LoopTypes, LinkInv, TaskTypes
<1> DEFINE x == [id |-> cycle[p].plan, goal |-> cycle[p].goal, status |-> "pending",
                 tasks |-> cycle[p].tasks]
<1>1. /\ UNCHANGED <<rewrite, file, mem, loaded, made, mishaps>> /\ at[p] = "save"
      /\ at' = [at EXCEPT ![p] = "idle"] /\ cycle' = [cycle EXCEPT ![p] = NoCycle]
      /\ plans' = Append(plans, x)
  BY DEF SavePlan, End, taskVars
<1>2. x.id = cycle[p].plan /\ x.tasks = cycle[p].tasks /\ x \in PlanRecord
  BY <1>0 DEF CycleRecord, PlanRecord, PlanStatuses, OpenPlan
<1> HIDE DEF x
<1>3. /\ \A q \in Processes : q # p => at'[q] = at[q] /\ cycle'[q] = cycle[q]
      /\ at'[p] = "idle" /\ cycle'[p].tasks = <<>>
  BY <1>0, <1>1 DEF NoCycle
<1>4. /\ Len(plans) \in Nat /\ Len(plans') = Len(plans) + 1 /\ plans'[Len(plans) + 1] = x
      /\ \A i \in 1 .. Len(plans) : plans'[i] = plans[i]
  BY <1>0, <1>1, <1>2, AppendProperties, LenProperties
<1>5. ASSUME NEW t \in Nat, NEW pl \in Nat, Owns(t, pl)'
      PROVE  Owns(t, pl)
  <2>1. CASE OwnedIn(plans, t, pl)'
    <3>1. PICK i \in 1 .. Len(plans) + 1 : plans'[i].id = pl /\ TaskOf(plans'[i].tasks, t)
      BY <1>4, <2>1 DEF OwnedIn
    <3>2. CASE i \in 1 .. Len(plans)
      <4>1. plans[i].id = pl /\ TaskOf(plans[i].tasks, t)
        BY <1>4, <3>1, <3>2
      <4> QED
        BY <3>2, <4>1 DEF Owns, OwnedIn
    <3>3. CASE i = Len(plans) + 1
      <4>1. cycle[p].plan = pl /\ TaskOf(cycle[p].tasks, t)
        BY <1>2, <1>4, <3>1, <3>3
      <4> QED
        BY <1>1, <4>1 DEF Owns
    <3> QED
      BY <1>4, <3>2, <3>3
  <2>2. CASE OwnedIn(rewrite.plans, t, pl)'
    BY <1>1, <2>2 DEF Owns
  <2>3. ASSUME NEW q \in Processes, at'[q] = "save", cycle'[q].plan = pl, TaskOf(cycle'[q].tasks, t)
        PROVE  Owns(t, pl)
    BY <1>3, <2>3 DEF Owns
  <2> QED
    BY <1>5, <2>1, <2>2, <2>3 DEF Owns
<1>6. /\ \A q \in Processes : at'[q] \in {"tasks", "link"} => at[q] = at'[q] /\ cycle'[q] = cycle[q]
      /\ \A q \in Processes : at'[q] \in {"idle", "plans"} => cycle'[q].tasks = <<>>
  BY <1>0, <1>3
<1> QED
  BY <1>1, <1>5, <1>6, PlansMoveKeepsLinks

LEMMA BeginKeepsLinks ==
  ASSUME LinkInv, BeginUpdate
  PROVE  LinkInv'
<1>1. /\ UNCHANGED <<file, mem, loaded, at, cycle, made>> /\ mishaps \subseteq mishaps'
      /\ plans' = <<>> /\ rewrite'.plans = plans
  BY DEF BeginUpdate, taskVars
<1>2. \A t, pl : ~OwnedIn(<<>>, t, pl)
  <2>1. Len(<<>>) = 0
    BY EmptySeq
  <2> QED
    BY <2>1 DEF OwnedIn
<1>3. \A t, pl \in Nat : Owns(t, pl)' => Owns(t, pl)
  BY <1>1, <1>2 DEF Owns
<1>4. \A q \in Processes : at[q] \in {"idle", "plans"} => cycle[q].tasks = <<>>
  BY DEF LinkInv, TaskTypes
<1> QED
  BY <1>1, <1>3, <1>4, PlansMoveKeepsLinks

LEMMA EndKeepsLinks ==
  ASSUME PlanInv, LinkInv, EndUpdate
  PROVE  LinkInv'
<1> DEFINE s == rewrite.plans
<1>1. /\ UNCHANGED <<file, mem, loaded, at, cycle, made, mishaps>> /\ rewrite' = NoRewrite
      /\ plans' = [i \in DOMAIN s |->
                     IF s[i].id = rewrite.id THEN [s[i] EXCEPT !.status = rewrite.status]
                                             ELSE s[i]]
      /\ rewrite \in Rewriting
  BY DEF EndUpdate, taskVars, PlanInv, LoopTypes
<1>2. s \in Seq(PlanRecord) /\ Len(s) \in Nat /\ DOMAIN s = 1 .. Len(s)
  BY <1>1, LenProperties DEF Rewriting
<1> HIDE DEF s
<1>3. ASSUME NEW i \in 1 .. Len(s)
      PROVE  plans'[i].id = s[i].id /\ plans'[i].tasks = s[i].tasks
  <2>1. s[i] \in PlanRecord
    BY <1>2
  <2>2. plans'[i] = s[i] \/ plans'[i] = [s[i] EXCEPT !.status = rewrite.status]
    BY <1>1, <1>2
  <2> QED
    BY <2>1, <2>2 DEF PlanRecord
<1>4. Len(plans') = Len(s)
  <2>1. DOMAIN plans' = 1 .. Len(s) /\ plans' = [i \in 1 .. Len(s) |-> plans'[i]]
    BY <1>1, <1>2
  <2> QED
    BY <1>2, <2>1
<1>5. \A t, pl : ~OwnedIn(NoRewrite.plans, t, pl)
  <2>1. Len(<<>>) = 0 /\ NoRewrite.plans = <<>>
    BY EmptySeq DEF NoRewrite
  <2> QED
    BY <2>1 DEF OwnedIn
<1>6. ASSUME NEW t \in Nat, NEW pl \in Nat, Owns(t, pl)'
      PROVE  Owns(t, pl)
  <2>1. CASE OwnedIn(plans, t, pl)'
    <3>1. OwnedIn(s, t, pl)
      BY <1>3, <1>4, <2>1 DEF OwnedIn
    <3> QED
      BY <3>1 DEF Owns, s
  <2>2. ~OwnedIn(rewrite.plans, t, pl)'
    BY <1>1, <1>5
  <2> QED
    BY <1>1, <1>6, <2>1, <2>2 DEF Owns
<1>7. \A q \in Processes : at[q] \in {"idle", "plans"} => cycle[q].tasks = <<>>
  BY DEF LinkInv, TaskTypes
<1> QED
  BY <1>1, <1>6, <1>7, PlansMoveKeepsLinks

(* A save of a process that is making a plan: what other plans own keeps.  *)
LEMMA MakerSaveAgrees ==
  ASSUME PlanInv, LinkInv, Untroubled', NEW p \in Processes, at[p] \in {"tasks", "link"},
         NEW s \in Seq(Task), NEW C, Save(p, s), KeepsTasks(s, mem[p], C, made.tasks),
         \A u \in C : TaskOf(cycle[p].tasks, u),
         \A i \in 1 .. Len(mem[p]) : Has(s, mem[p][i].id),
         NEW t \in Nat, NEW pl \in Nat, Owns(t, pl)
  PROVE  t <= made.tasks /\ Agree(t, pl)'
<1>1. /\ Untroubled /\ "clobber" \notin mishaps' /\ mem' = [mem EXCEPT ![p] = s]
      /\ made.tasks \in Nat /\ TaskTypes
  BY DEF Untroubled, Apart, Save, PlanInv, LoopTypes, LinkInv
<1>2. Known(p) = mem[p] /\ InHand(p) /\ t <= made.tasks /\ Agree(t, pl)
  BY <1>1 DEF LinkInv, Known
<1>3. t \notin C
  BY <1>2 DEF InHand
<1>4. p = "loop" => \A u \in Nat : Has(Known(p), u) => Has(s, u)
  BY <1>2 DEF Has
<1>5. KeepsTasks(s, Known(p), C, made.tasks)
  BY <1>2
<1>6. Agree(t, pl)'
  BY <1>1, <1>2, <1>3, <1>4, <1>5, SaveAgrees, Zenon
<1> QED
  BY <1>2, <1>6

LEMMA CreateKeepsLinks ==
  ASSUME PlanInv, LinkInv, CognitiveAssumption, NEW p \in Processes, CreateTask(p)
  PROVE  LinkInv'
<1> DEFINE c == cycle[p]
           k == Len(c.tasks)
           m == mem[p]
           n == made.tasks
           C == IF k > 0 THEN {c.tasks[k]} ELSE {}
           x == NewTask(Steps[k + 1], 0, FALSE)
           r == Relink(m, C, c.plan)
           s == Append(r, x)
<1>0. /\ at \in [Processes -> CyclePlaces] /\ cycle \in [Processes -> CycleRecord]
      /\ made \in [tasks : Nat, plans : Nat] /\ n \in Nat /\ TaskTypes /\ (Apart => Turns)
      /\ c \in CycleRecord /\ Stored(m, n) /\ m \in Seq(Task)
  BY DEF PlanInv, LoopTypes, LinkInv, TaskTypes
<1>1. /\ c.tasks \in Seq(Nat) /\ c.plan \in Nat /\ k \in Nat
      /\ DOMAIN m = 1 .. Len(m) /\ Len(m) \in Nat
  BY <1>0, LenProperties DEF CycleRecord
<1>2. /\ at[p] = "tasks" /\ k < Len(Steps) /\ UNCHANGED <<plans, rewrite, crashes>>
      /\ made' = [made EXCEPT !.tasks = @ + 1]
      /\ cycle' = [cycle EXCEPT ![p].tasks = Append(@, n + 1)]
      /\ at' = [at EXCEPT ![p] = IF k + 1 = Len(Steps) THEN "link" ELSE "tasks"]
  BY DEF CreateTask, planVars
<1>3. Save(p, s)
  <2>1. \A i \in 1 .. Len(m) : m[i].id \in C <=> k > 0 /\ m[i].id = c.tasks[k]
    OBVIOUS
  <2>2. r = [i \in DOMAIN m |-> IF k > 0 /\ m[i].id = c.tasks[k]
                                THEN [m[i] EXCEPT !.plan = c.plan, !.action = TRUE]
                                ELSE m[i]]
    BY <1>1, <2>1 DEF Relink
  <2>3. Save(p, Append([i \in DOMAIN m |-> IF k > 0 /\ m[i].id = c.tasks[k]
                                THEN [m[i] EXCEPT !.plan = c.plan, !.action = TRUE]
                                ELSE m[i]], x))
    BY DEF CreateTask
  <2> QED
    BY <2>2, <2>3
<1>4. x \in Task /\ x.id = n + 1
  <2>1. Steps[k + 1] \in TaskTitles
    <3>1. k + 1 \in 1 .. Len(Steps)
      BY <1>1, <1>2, LenProperties DEF CognitiveAssumption
    <3> QED
      BY <3>1 DEF TaskTitles
  <2> QED
    BY <1>0, <2>1, NewTaskIs
<1>5. /\ Stored(r, n) /\ Len(r) = Len(m) /\ KeepsTasks(r, m, C, n)
      /\ \A i \in 1 .. Len(m) : r[i].id = m[i].id
  <2> HIDE DEF c, m, n, C
  <2>1. Stored(m, n) /\ c.plan \in Nat
    BY <1>0, <1>1
  <2>2. /\ Stored(r, n) /\ Len(r) = Len(m) /\ KeepsTasks(r, m, C, n)
        /\ \A i \in 1 .. Len(m) : /\ r[i].id = m[i].id
                                  /\ m[i].id \in C => r[i].plan = c.plan /\ r[i].action = TRUE
    BY <2>1, RelinkStored, Zenon
  <2> QED
    BY <2>2
<1> HIDE DEF r, x
<1>6. /\ Stored(s, n + 1) /\ s \in Seq(Task) /\ Len(s) = Len(m) + 1 /\ s[Len(m) + 1] = x
      /\ \A i \in 1 .. Len(m) : s[i] = r[i]
  <2> HIDE DEF c, k, m, n, C
  <2>1. /\ Stored(s, n + 1) /\ Len(s) = Len(r) + 1 /\ s[Len(r) + 1] = x
        /\ \A i \in 1 .. Len(r) : s[i] = r[i]
    <3>1. n \in Nat /\ Stored(r, n) /\ x \in Task /\ x.id = n + 1
      BY <1>0, <1>4, <1>5
    <3> QED
      BY <3>1, AppendStored
  <2>2. Len(r) = Len(m)
    BY <1>5
  <2> HIDE DEF s
  <2> QED
    BY <2>1, <2>2 DEF Stored
<1> HIDE DEF s
<1>7. KeepsTasks(s, m, C, n)
  <2> SUFFICES ASSUME NEW j \in 1 .. Len(m) + 1
               PROVE  \/ s[j].id > n \/ s[j].id \in C
                      \/ \E i \in 1 .. Len(m) : /\ s[j].id = m[i].id /\ s[j].plan = m[i].plan
                                                /\ s[j].action = m[i].action
    BY <1>6, Zenon DEF KeepsTasks
  <2>0. j = Len(m) + 1 \/ j \in 1 .. Len(m)
    BY <1>1
  <2>1. CASE j = Len(m) + 1
    BY <1>0, <1>4, <1>6, <2>1
  <2>2. CASE j \in 1 .. Len(m)
    <3>1. /\ s[j] = r[j]
          /\ \/ r[j].id > n \/ r[j].id \in C
             \/ \E i \in 1 .. Len(m) : /\ r[j].id = m[i].id /\ r[j].plan = m[i].plan
                                       /\ r[j].action = m[i].action
      BY <1>5, <1>6, <2>2 DEF KeepsTasks
    <3> QED
      BY <3>1
  <2> QED
    BY <2>0, <2>1, <2>2, Zenon
<1>8. Has(s, n + 1) /\ \A i \in 1 .. Len(m) : Has(s, m[i].id)
  <2> HIDE DEF c, k, m, n, C
  <2>1. Len(m) + 1 \in 1 .. Len(s) /\ s[Len(m) + 1].id = n + 1
    BY <1>1, <1>4, <1>6
  <2>2. \A i \in 1 .. Len(m) : i \in 1 .. Len(s) /\ s[i].id = m[i].id
    BY <1>1, <1>5, <1>6
  <2> QED
    BY <2>1, <2>2, Zenon DEF Has
<1>9. /\ made'.tasks = n + 1 /\ made'.tasks \in Nat /\ n <= made'.tasks
      /\ at'[p] \in {"tasks", "link"} /\ cycle'[p].tasks = Append(c.tasks, n + 1)
      /\ \A q \in Processes : q # p => at'[q] = at[q] /\ cycle'[q] = cycle[q]
  <2>1. cycle'[p] = [c EXCEPT !.tasks = Append(c.tasks, n + 1)]
    BY <1>0, <1>2
  <2>2. cycle'[p].tasks = Append(c.tasks, n + 1)
    BY <1>0, <2>1 DEF CycleRecord
  <2>3. made'.tasks = n + 1
    BY <1>0, <1>2
  <2> HIDE DEF c, k, n
  <2>4. /\ at'[p] \in {"tasks", "link"}
        /\ \A q \in Processes : q # p => at'[q] = at[q] /\ cycle'[q] = cycle[q]
    BY <1>0, <1>2
  <2> QED
    BY <1>0, <2>2, <2>3, <2>4
<1> HIDE DEF C
<1>10. /\ Stored(file', made'.tasks) /\ \A q \in Processes : Stored(mem'[q], made'.tasks)
       /\ mem' \in [Processes -> Seq(Task)] /\ loaded' \in [Processes -> BOOLEAN]
       /\ file' = s /\ mem'[p] = s /\ loaded'[p]
       /\ \A q \in Processes \ {p} : mem'[q] = mem[q] /\ loaded'[q] = loaded[q]
  <2>1. Stored(s, made'.tasks)
    BY <1>6, <1>9
  <2> QED
    BY <1>0, <1>3, <1>9, <2>1, SaveTypes
<1>11. TaskTypes'
  <2>1. \A q \in Processes : at'[q] \in {"idle", "plans"} => cycle'[q].tasks = <<>>
    BY <1>0, <1>9 DEF TaskTypes
  <2> QED
    BY <1>10, <2>1 DEF TaskTypes
<1> SUFFICES ASSUME Untroubled'
             PROVE  /\ \A t, pl \in Nat : Owns(t, pl)' => t <= made'.tasks /\ Agree(t, pl)'
                    /\ \A q \in Processes : at'[q] \in {"tasks", "link"} => loaded'[q] /\ InHand(q)'
  BY <1>11 DEF LinkInv
<1>12. Untroubled /\ Turns
  BY <1>0, <1>3 DEF Untroubled, Apart, Save
<1>13. \A t, pl \in Nat : Owns(t, pl)' => Owns(t, pl)
  <2>1. \A q \in Processes : at'[q] = "save" => at[q] = "save" /\ cycle'[q] = cycle[q]
    BY <1>9
  <2> QED
    BY <1>2, <2>1 DEF Owns
<1>14. loaded[p] /\ InHand(p)
  BY <1>2, <1>12 DEF LinkInv
<1>15. ASSUME NEW t \in Nat, NEW pl \in Nat, Owns(t, pl)'
       PROVE  t <= made'.tasks /\ Agree(t, pl)'
  <2>1. \A u \in C : TaskOf(c.tasks, u)
    <3> SUFFICES ASSUME NEW u \in C PROVE TaskOf(c.tasks, u)
      OBVIOUS
    <3>1. k > 0 /\ u = c.tasks[k]
      BY DEF C
    <3>2. k \in 1 .. Len(c.tasks)
      BY <1>1, <3>1
    <3> QED
      BY <3>1, <3>2, Zenon DEF TaskOf
  <2>2. Owns(t, pl)
    BY <1>13, <1>15
  <2>3. t <= made.tasks /\ Agree(t, pl)'
    BY <1>2, <1>3, <1>6, <1>7, <1>8, <2>1, <2>2, MakerSaveAgrees
  <2> QED
    BY <1>0, <1>9, <2>3
<1>16. InHand(p)'
  <2> SUFFICES ASSUME NEW t \in Nat, TaskOf(cycle'[p].tasks, t)
               PROVE  /\ t <= made'.tasks /\ Has(s, t) /\ \A pl \in Nat : ~Owns(t, pl)'
                      /\ p = "server" => ~Has(mem'["loop"], t)
    BY <1>10 DEF InHand
  <2>0. p = "server" => mem'["loop"] = mem["loop"]
    BY <1>10 DEF Processes
  <2>1. CASE TaskOf(c.tasks, t)
    <3>1. /\ t <= n /\ Has(m, t) /\ \A pl \in Nat : ~Owns(t, pl)
          /\ p = "server" => ~Has(mem["loop"], t)
      BY <1>14, <2>1 DEF InHand
    <3>2. Has(s, t)
      BY <1>8, <3>1 DEF Has
    <3> QED
      BY <1>0, <1>9, <1>13, <2>0, <3>1, <3>2
  <2>2. CASE t = n + 1
    <3>1. \A pl \in Nat : ~Owns(t, pl)
      <4>1. \A pl \in Nat : Owns(t, pl) => t <= n
        BY <1>12 DEF LinkInv
      <4> QED
        BY <1>0, <2>2, <4>1
    <3>2. ~Has(mem["loop"], t)
      <4>1. Stored(mem["loop"], n)
        BY <1>0 DEF TaskTypes, Processes
      <4>2. ASSUME NEW i \in 1 .. Len(mem["loop"]) PROVE mem["loop"][i].id # t
        <5>1. mem["loop"][i].id <= n
          BY <4>1, Zenon DEF Stored
        <5>2. mem["loop"][i] \in Task
          <6> HIDE DEF Task, n
          <6> QED
            BY <4>1, ElementOfSeq DEF Stored
        <5>3. mem["loop"][i].id \in Nat
          BY <5>2 DEF Task
        <5> HIDE DEF n
        <5> QED
          BY <1>0, <2>2, <5>1, <5>3
      <4> QED
        BY <4>2 DEF Has
    <3> QED
      BY <1>0, <1>8, <1>9, <1>13, <2>0, <2>2, <3>1, <3>2
  <2>3. TaskOf(c.tasks, t) \/ t = n + 1
    <3>1. /\ Len(Append(c.tasks, n + 1)) = k + 1
          /\ \A i \in 1 .. k : Append(c.tasks, n + 1)[i] = c.tasks[i]
          /\ Append(c.tasks, n + 1)[k + 1] = n + 1
      BY <1>0, <1>1, AppendProperties
    <3>2. PICK i \in 1 .. k + 1 : Append(c.tasks, n + 1)[i] = t
      BY <1>9, <3>1 DEF TaskOf
    <3>3. i \in 1 .. k \/ i = k + 1
      BY <1>1
    <3> QED
      BY <3>1, <3>2, <3>3 DEF TaskOf
  <2> QED
    BY <2>1, <2>2, <2>3
<1>17. ASSUME NEW q \in Processes, at'[q] \in {"tasks", "link"}
       PROVE  q = p
  BY <1>2, <1>9, <1>12, <1>17 DEF Turns, Busy
<1> QED
  BY <1>10, <1>15, <1>16, <1>17

LEMMA LinkKeepsLinks ==
  ASSUME PlanInv, LinkInv, NEW p \in Processes, LinkTasks(p)
  PROVE  LinkInv'
<1> DEFINE c == cycle[p]
           m == mem[p]
           n == made.tasks
           C == {c.tasks[k] : k \in DOMAIN c.tasks}
           s == Relink(m, C, c.plan)
<1>0. /\ at \in [Processes -> CyclePlaces] /\ cycle \in [Processes -> CycleRecord]
      /\ n \in Nat /\ TaskTypes /\ (Apart => Turns)
      /\ c \in CycleRecord /\ Stored(m, n) /\ m \in Seq(Task)
  BY DEF PlanInv, LoopTypes, LinkInv, TaskTypes
<1>1. /\ c.tasks \in Seq(Nat) /\ c.plan \in Nat /\ DOMAIN c.tasks = 1 .. Len(c.tasks)
      /\ DOMAIN m = 1 .. Len(m) /\ Len(m) \in Nat
  BY <1>0, LenProperties DEF CycleRecord
<1>2. /\ at[p] = "link" /\ UNCHANGED <<plans, rewrite, cycle, made>>
      /\ at' = [at EXCEPT ![p] = "save"] /\ Save(p, s)
  BY <1>1 DEF LinkTasks, planVars, Relink
<1>3. \A u : u \in C <=> TaskOf(c.tasks, u)
  BY <1>1 DEF TaskOf
<1>4. /\ Stored(s, n) /\ Len(s) = Len(m) /\ KeepsTasks(s, m, C, n)
      /\ \A i \in 1 .. Len(m) : /\ s[i].id = m[i].id
                                /\ m[i].id \in C => s[i].plan = c.plan /\ s[i].action = TRUE
  <2> HIDE DEF c, m, n, C
  <2>1. Stored(m, n) /\ c.plan \in Nat
    BY <1>0, <1>1
  <2>2. /\ Stored(s, n) /\ Len(s) = Len(m) /\ KeepsTasks(s, m, C, n)
        /\ \A i \in 1 .. Len(m) : /\ s[i].id = m[i].id
                                  /\ m[i].id \in C => s[i].plan = c.plan /\ s[i].action = TRUE
    BY <2>1, RelinkStored, Zenon
  <2> QED
    BY <2>2
<1> HIDE DEF s, C
<1>5. \A i \in 1 .. Len(m) : Has(s, m[i].id)
  BY <1>4, Zenon DEF Has
<1>6. /\ at'[p] = "save" /\ \A q \in Processes : q # p => at'[q] = at[q]
      /\ made'.tasks = n /\ cycle' = cycle
  BY <1>0, <1>2
<1>7. /\ Stored(file', made'.tasks) /\ \A q \in Processes : Stored(mem'[q], made'.tasks)
      /\ mem' \in [Processes -> Seq(Task)] /\ loaded' \in [Processes -> BOOLEAN]
      /\ file' = s /\ mem'[p] = s
      /\ \A q \in Processes \ {p} : mem'[q] = mem[q]
  <2>1. Stored(s, made'.tasks) /\ made'.tasks \in Nat /\ made.tasks <= made'.tasks
    BY <1>0, <1>4, <1>6
  <2> QED
    BY <1>0, <1>2, <2>1, SaveTypes
<1>8. TaskTypes'
  <2>1. \A q \in Processes : at'[q] \in {"idle", "plans"} => cycle'[q].tasks = <<>>
    BY <1>0, <1>6 DEF TaskTypes
  <2> QED
    BY <1>7, <2>1 DEF TaskTypes
<1> SUFFICES ASSUME Untroubled'
             PROVE  /\ \A t, pl \in Nat : Owns(t, pl)' => t <= made'.tasks /\ Agree(t, pl)'
                    /\ \A q \in Processes : at'[q] \in {"tasks", "link"} => loaded'[q] /\ InHand(q)'
  BY <1>8 DEF LinkInv
<1>9. Untroubled /\ Turns
  BY <1>0, <1>2 DEF Untroubled, Apart, Save
<1>10. InHand(p)
  BY <1>2, <1>9 DEF LinkInv
<1>11. ASSUME NEW t \in Nat, NEW pl \in Nat, Owns(t, pl)'
       PROVE  t <= made'.tasks /\ Agree(t, pl)'
  <2>1. CASE Owns(t, pl)
    <3>1. s \in Seq(Task) /\ \A u \in C : TaskOf(c.tasks, u)
      BY <1>3, <1>4 DEF Stored
    <3>2. t <= made.tasks /\ Agree(t, pl)'
      BY <1>2, <1>4, <1>5, <2>1, <3>1, MakerSaveAgrees
    <3> QED
      BY <1>6, <3>2
  <2>2. CASE pl = c.plan /\ TaskOf(c.tasks, t)
    <3>1. t <= n /\ Has(m, t) /\ (p = "server" => ~Has(mem["loop"], t))
      BY <1>10, <2>2 DEF InHand
    <3>2. AllLinked(s, t, pl)
      BY <1>3, <1>4, <2>2 DEF AllLinked
    <3>3. Has(s, t)
      BY <1>5, <3>1 DEF Has
    <3>4. p = "server" => AllLinked(mem["loop"], t, pl)
      BY <3>1 DEF AllLinked, Has
    <3>5. Agree(t, pl)'
      BY <1>7, <3>2, <3>3, <3>4 DEF Agree, Processes
    <3> QED
      BY <1>6, <3>1, <3>5
  <2>3. Owns(t, pl) \/ (pl = c.plan /\ TaskOf(c.tasks, t))
    <3>1. \A q \in Processes : q # p /\ at'[q] = "save" => at[q] = "save"
      BY <1>6
    <3> QED
      BY <1>2, <1>6, <1>11, <3>1 DEF Owns
  <2> QED
    BY <2>1, <2>2, <2>3
<1>12. ASSUME NEW q \in Processes
       PROVE  at'[q] \notin {"tasks", "link"}
  BY <1>2, <1>6, <1>9 DEF Turns, Busy
<1> QED
  BY <1>11, <1>12

LEMMA RestartKeepsLinks ==
  ASSUME PlanInv, LinkInv, NEW p \in Processes, Restart(p)
  PROVE  LinkInv'
<1>0. /\ at \in [Processes -> CyclePlaces] /\ cycle \in [Processes -> CycleRecord]
      /\ made.tasks \in Nat /\ TaskTypes
  BY DEF PlanInv, LoopTypes, LinkInv
<1>1. /\ UNCHANGED <<plans, made>> /\ mishaps' = mishaps \cup Noted("torn", Busy(p))
      /\ at' = [at EXCEPT ![p] = "idle"] /\ cycle' = [cycle EXCEPT ![p] = NoCycle]
      /\ mem' = [mem EXCEPT ![p] = <<>>] /\ loaded' = [loaded EXCEPT ![p] = FALSE]
      /\ rewrite' = IF p = "server" THEN NoRewrite ELSE rewrite
      /\ \/ file' = file
         \/ file' = <<>> /\ at[p] \in {"tasks", "link"}
  <2>1. /\ UNCHANGED <<plans, made>> /\ mishaps' = mishaps \cup Noted("torn", Busy(p))
        /\ at' = [at EXCEPT ![p] = "idle"] /\ cycle' = [cycle EXCEPT ![p] = NoCycle]
        /\ mem' = [mem EXCEPT ![p] = <<>>] /\ loaded' = [loaded EXCEPT ![p] = FALSE]
        /\ rewrite' = IF p = "server" THEN NoRewrite ELSE rewrite
    BY DEF Restart, End, NoTasks
  <2>2. file' \in {file} \cup IF at[p] \in {"tasks", "link"} THEN {<<>>} ELSE {}
    BY DEF Restart, NoTasks
  <2> QED
    BY <2>1, <2>2
<1>2. /\ at'[p] = "idle" /\ cycle'[p].tasks = <<>>
      /\ \A q \in Processes : q # p => at'[q] = at[q] /\ cycle'[q] = cycle[q]
  BY <1>0, <1>1 DEF NoCycle
<1>3. /\ mem' \in [Processes -> Seq(Task)] /\ mem'[p] = <<>>
      /\ \A q \in Processes : q # p => mem'[q] = mem[q]
  <2>1. <<>> \in Seq(Task)
    BY EmptySeq
  <2> QED
    BY <1>0, <1>1, <2>1 DEF TaskTypes
<1>4. /\ loaded' \in [Processes -> BOOLEAN]
      /\ \A q \in Processes : q # p => loaded'[q] = loaded[q]
  BY <1>0, <1>1, Zenon DEF TaskTypes
<1>5. TaskTypes'
  <2>1. Stored(file', made'.tasks) /\ \A q \in Processes : Stored(mem'[q], made'.tasks)
    BY <1>0, <1>1, <1>3, EmptyStored DEF TaskTypes
  <2>2. \A q \in Processes : at'[q] \in {"idle", "plans"} => cycle'[q].tasks = <<>>
    BY <1>0, <1>2 DEF TaskTypes
  <2> QED
    BY <1>3, <1>4, <2>1, <2>2 DEF TaskTypes
<1> SUFFICES ASSUME Untroubled'
             PROVE  /\ \A t, pl \in Nat : Owns(t, pl)' => t <= made'.tasks /\ Agree(t, pl)'
                    /\ \A q \in Processes : at'[q] \in {"tasks", "link"} => loaded'[q] /\ InHand(q)'
  BY <1>5 DEF LinkInv
<1>6. Untroubled /\ ~Busy(p)
  BY <1>1 DEF Untroubled, Apart, Noted
<1>7. file' = file /\ rewrite' = rewrite
  BY <1>1, <1>6 DEF Busy
<1>8. ASSUME NEW t, NEW pl, Owns(t, pl)'
      PROVE  Owns(t, pl)
  BY <1>1, <1>2, <1>7, <1>8 DEF Owns
<1>9. ASSUME NEW t \in Nat, NEW pl \in Nat, Owns(t, pl)'
      PROVE  t <= made'.tasks /\ Agree(t, pl)'
  <2>1. t <= made.tasks /\ Agree(t, pl)
    BY <1>6, <1>8, <1>9 DEF LinkInv
  <2>2. AllLinked(<<>>, t, pl)
    <3>1. Len(<<>>) = 0
      BY EmptySeq
    <3> QED
      BY <3>1 DEF AllLinked
  <2>3. \A q \in Processes : mem'[q] = mem[q] \/ mem'[q] = <<>>
    BY <1>3
  <2>4. "loop" \in Processes /\ "server" \in Processes
    BY DEF Processes
  <2>5. AllLinked(mem["loop"], t, pl)'
    BY <2>1, <2>2, <2>3, <2>4 DEF Agree
  <2>6. (AllLinked(mem["server"], t, pl) \/ Has(file, t))'
    BY <1>7, <2>1, <2>2, <2>3, <2>4 DEF Agree
  <2>7. AllLinked(file, t, pl)'
    BY <1>7, <2>1 DEF Agree
  <2> QED
    BY <1>1, <2>1, <2>5, <2>6, <2>7 DEF Agree
<1>10. ASSUME NEW q \in Processes, at'[q] \in {"tasks", "link"}
       PROVE  loaded'[q] /\ InHand(q)'
  <2>1. q # p /\ at[q] = at'[q] /\ cycle'[q] = cycle[q] /\ mem'[q] = mem[q] /\ loaded'[q] = loaded[q]
    BY <1>2, <1>3, <1>4, <1>10
  <2>2. loaded[q] /\ InHand(q)
    BY <1>6, <1>10, <2>1 DEF LinkInv
  <2>3. ASSUME NEW t \in Nat, TaskOf(cycle[q].tasks, t)
        PROVE  /\ t <= made'.tasks /\ Has(mem[q], t) /\ \A pl \in Nat : ~Owns(t, pl)'
               /\ q = "server" => ~Has(mem'["loop"], t)
    <3>1. /\ t <= made.tasks /\ Has(mem[q], t) /\ \A pl \in Nat : ~Owns(t, pl)
          /\ q = "server" => ~Has(mem["loop"], t)
      BY <2>2, <2>3 DEF InHand
    <3>2. q = "server" => p = "loop" /\ mem'["loop"] = <<>>
      BY <1>3, <2>1 DEF Processes
    <3>3. ~Has(<<>>, t)
      <4>1. Len(<<>>) = 0
        BY EmptySeq
      <4> QED
        BY <4>1 DEF Has
    <3> QED
      BY <1>1, <1>8, <3>1, <3>2, <3>3
  <2> QED
    BY <2>1, <2>2, <2>3 DEF InHand
<1> QED
  BY <1>9, <1>10

LEMMA LinkStart == CognitiveInit => LinkInv
<1> SUFFICES ASSUME CognitiveInit PROVE LinkInv
  OBVIOUS
<1>1. TaskTypes
  <2>1. <<>> \in Seq(Task)
    BY EmptySeq
  <2> QED
    BY <2>1, EmptyStored DEF CognitiveInit, TaskTypes, NoTasks, NoCycle
<1>2. ASSUME NEW t \in Nat, NEW pl \in Nat PROVE ~Owns(t, pl)
  <2>1. Len(<<>>) = 0 /\ plans = <<>> /\ rewrite.plans = <<>>
    BY EmptySeq DEF CognitiveInit, NoRewrite
  <2> QED
    BY <2>1 DEF CognitiveInit, Owns, OwnedIn
<1> QED
  BY <1>1, <1>2 DEF LinkInv, CognitiveInit

LEMMA LinkStep == PlanInv /\ LinkInv /\ [CognitiveNext]_cognitiveVars => LinkInv'
<1> SUFFICES ASSUME PlanInv, LinkInv, [CognitiveNext]_cognitiveVars PROVE LinkInv'
  OBVIOUS
<1>1. ASSUME NEW p \in Processes,
             \/ Evaluate(p) \/ LookForPlan(p) \/ CreateTask(p)
             \/ LinkTasks(p) \/ SavePlan(p) \/ Restart(p)
      PROVE  LinkInv'
  BY <1>1, CognitiveAssumption, EvaluateKeepsLinks, LookKeepsLinks, CreateKeepsLinks,
     LinkKeepsLinks, SavePlanKeepsLinks, RestartKeepsLinks
<1>2. CASE StartNext \/ CloseTask \/ DeleteTask \/ ClearDone \/ CreateGoalTask
  BY <1>2, RoutesKeepLinks
<1>3. CASE BeginUpdate
  BY <1>3, BeginKeepsLinks
<1>4. CASE EndUpdate
  BY <1>4, EndKeepsLinks
<1>5. CASE UNCHANGED cognitiveVars
  <2>1. \A q \in Processes : at[q] \in {"idle", "plans"} => cycle[q].tasks = <<>>
    BY DEF LinkInv, TaskTypes
  <2>2. UNCHANGED <<plans, file, mem, loaded, at, cycle, rewrite, made, mishaps>>
    BY <1>5 DEF cognitiveVars
  <2>3. \A t, pl \in Nat : Owns(t, pl)' => Owns(t, pl)
    BY <2>2 DEF Owns
  <2> QED
    BY <2>1, <2>2, <2>3, PlansMoveKeepsLinks
<1> QED
  BY <1>1, <1>2, <1>3, <1>4, <1>5 DEF CognitiveNext

(* TasksAndPlansAgree: create_tasks_from_plan (task_manager.py) saves each *)
(* task before it sets its plan and action, and every TaskManager writes   *)
(* back all the tasks it remembers.  While the processes take turns, none  *)
(* saves over tasks it does not know and none dies half-way through, the   *)
(* tasks a plan in plans.jsonl lists are in tasks.json, if at all, with    *)
(* that plan and an action: for any steps of a plan, any titles, and any   *)
(* number of tasks, plans and crashes.                                     *)
THEOREM TasksAndPlansAgreeCorrect == CognitiveSpec => []TasksAndPlansAgree
<1>1. PlanInv /\ LinkInv => TasksAndPlansAgree
  <2> SUFFICES ASSUME PlanInv, LinkInv, mishaps \cap {"overlap", "clobber", "torn"} = {},
                      NEW i \in DOMAIN plans, NEW k \in DOMAIN file,
                      file[k].id \in {plans[i].tasks[n] : n \in DOMAIN plans[i].tasks}
               PROVE  file[k].plan = plans[i].id /\ file[k].action
    BY DEF TasksAndPlansAgree
  <2>1. /\ plans \in Seq(PlanRecord) /\ DOMAIN plans = 1 .. Len(plans)
        /\ file \in Seq(Task) /\ DOMAIN file = 1 .. Len(file)
    BY LenProperties DEF PlanInv, LoopTypes, LinkInv, TaskTypes, Stored
  <2>2. plans[i] \in PlanRecord /\ file[k] \in Task
    BY <2>1
  <2>3. plans[i].id \in Nat /\ plans[i].tasks \in Seq(Nat) /\ file[k].id \in Nat
    BY <2>2 DEF PlanRecord, Task
  <2>4. DOMAIN plans[i].tasks = 1 .. Len(plans[i].tasks)
    BY <2>3, LenProperties
  <2>5. Owns(file[k].id, plans[i].id)
    BY <2>1, <2>4 DEF Owns, OwnedIn, TaskOf
  <2>6. Untroubled
    BY DEF Untroubled, Apart
  <2>7. AllLinked(file, file[k].id, plans[i].id)
    BY <2>3, <2>5, <2>6 DEF LinkInv, Agree
  <2> QED
    BY <2>1, <2>7 DEF AllLinked
<1>2. PlanInv /\ LinkInv /\ [CognitiveNext]_cognitiveVars => (PlanInv /\ LinkInv)'
  BY PlanStep, LinkStep
<1> QED
  BY PlanStart, LinkStart, <1>1, <1>2, PTL DEF CognitiveSpec

-----------------------------------------------------------------------------
(* What the cycles keep has its types (CognitiveLoop).                     *)

(* A cycle at work has a goal, and what it or an update will write is a    *)
(* list of plans that were made for one.                                   *)
CycleTypes ==
  /\ plans \in Seq(Plan) /\ rewrite.plans \in Seq(Plan)
  /\ \A p \in Processes : /\ at[p] # "idle" => cycle[p].goal \in CycleGoals
                          /\ cycle[p].plan <= made.plans
  /\ made.tasks <= MaxTasks /\ made.plans <= MaxPlans
  /\ crashes \in 0 .. MaxCrashes /\ mishaps \subseteq Mishaps

(* A plan that is closed and changed in some other way is still one.       *)
LEMMA PlanChanges ==
  ASSUME NEW x \in Plan, NEW st \in PlanStatuses
  PROVE  [x EXCEPT !.status = st] \in Plan
BY DEF Plan

(* The step does not disturb the plans, the cycles or the counts of them.  *)
LEMMA QuietKeepsTypes ==
  ASSUME CycleTypes, UNCHANGED <<plans, rewrite, at, cycle>>,
         made'.plans = made.plans, made'.tasks <= MaxTasks,
         crashes' = crashes, mishaps' \subseteq Mishaps
  PROVE  CycleTypes'
BY DEF CycleTypes

LEMMA SaveNotes ==
  ASSUME mishaps \subseteq Mishaps, NEW p, NEW s, Save(p, s)
  PROVE  mishaps' \subseteq Mishaps
BY DEF Save, Noted, Mishaps

LEMMA RoutesKeepTypes ==
  ASSUME PlanInv, CycleTypes,
         StartNext \/ CloseTask \/ DeleteTask \/ ClearDone \/ CreateGoalTask
  PROVE  CycleTypes'
<1>1. UNCHANGED <<plans, rewrite, at, cycle>> /\ crashes' = crashes
  BY DEF StartNext, CloseTask, DeleteTask, ClearDone, CreateGoalTask, ServerTasks, planVars
<1>2. mishaps' \subseteq Mishaps
  BY SaveNotes DEF CycleTypes, StartNext, CloseTask, DeleteTask, ClearDone, CreateGoalTask
<1>3. made \in [tasks : Nat, plans : Nat] /\ MaxTasks \in Nat
  BY CognitiveAssumption DEF PlanInv, LoopTypes
<1>4. made' = made \/ (made.tasks < MaxTasks /\ made' = [made EXCEPT !.tasks = @ + 1])
  BY DEF StartNext, CloseTask, DeleteTask, ClearDone, CreateGoalTask
<1>5. made'.plans = made.plans /\ made'.tasks <= MaxTasks
  BY <1>3, <1>4 DEF CycleTypes
<1> QED
  BY <1>1, <1>2, <1>5, QuietKeepsTypes

LEMMA EvaluateKeepsTypes ==
  ASSUME PlanInv, CycleTypes, NEW p \in Processes, Evaluate(p)
  PROVE  CycleTypes'
<1>0. /\ made \in [tasks : Nat, plans : Nat] /\ at \in [Processes -> CyclePlaces]
      /\ cycle \in [Processes -> CycleRecord]
  BY DEF PlanInv, LoopTypes
<1>1. PICK goal \in CycleGoals \cup {NoGoal}, policy1 \in Modes3 :
        LET missing == IF p = "server" /\ goal # NoGoal
                       THEN Proposed(policy1) \ Titles(Known(p)) ELSE {}
        IN \/ missing # {} /\ AddTasks(p, missing) /\ at' = at /\ cycle' = cycle
           \/ /\ missing = {}
              /\ ActOnDecision(p, IF p = "server" THEN Known(p) ELSE file, goal, policy1)
              /\ mishaps' = mishaps \cup Overlap
              /\ UNCHANGED <<file, made>>
  BY DEF Evaluate
<1>2. UNCHANGED <<plans, rewrite>> /\ crashes' = crashes
  BY DEF Evaluate, planVars
<1>3. ASSUME NEW missing, AddTasks(p, missing), at' = at, cycle' = cycle
      PROVE  CycleTypes'
  <2>1. /\ made.tasks + Cardinality(missing) <= MaxTasks
        /\ made' = [made EXCEPT !.tasks = made.tasks + Cardinality(missing)]
    BY <1>3 DEF AddTasks
  <2>2. made'.plans = made.plans /\ made'.tasks = made.tasks + Cardinality(missing)
    BY <1>0, <2>1
  <2>3. mishaps' \subseteq Mishaps
    BY <1>3, SaveNotes DEF AddTasks, CycleTypes
  <2> QED
    BY <1>2, <1>3, <2>1, <2>2, <2>3, QuietKeepsTypes
<1>4. ASSUME NEW tasks1,
             ActOnDecision(p, tasks1, goal, policy1), mishaps' = mishaps \cup Overlap,
             UNCHANGED made
      PROVE  CycleTypes'
  <2>1. mishaps' \subseteq Mishaps
    BY <1>4 DEF CycleTypes, Overlap, Noted, Mishaps
  <2>2. CASE UNCHANGED <<at, cycle>>
    BY <1>2, <1>4, <2>1, <2>2, QuietKeepsTypes DEF CycleTypes
  <2>3. CASE /\ goal # NoGoal /\ at' = [at EXCEPT ![p] = "plans"]
             /\ cycle' = [cycle EXCEPT ![p].goal = goal]
    <3>1. goal \in CycleGoals
      BY <2>3
    <3>2. ASSUME NEW q \in Processes
          PROVE  /\ at'[q] # "idle" => cycle'[q].goal \in CycleGoals
                 /\ cycle'[q].plan <= made.plans
      <4>1. cycle[q] \in CycleRecord /\ cycle[q].plan <= made.plans
        BY <1>0 DEF CycleTypes
      <4>2. CASE q = p
        <5>1. cycle'[q] = [cycle[q] EXCEPT !.goal = goal]
          BY <1>0, <2>3, <4>2
        <5> QED
          BY <3>1, <4>1, <5>1 DEF CycleRecord
      <4>3. CASE q # p
        <5>1. cycle'[q] = cycle[q] /\ at'[q] = at[q]
          BY <1>0, <2>3, <4>3
        <5> QED
          BY <4>1, <5>1 DEF CycleTypes
      <4> QED
        BY <4>2, <4>3
    <3> QED
      BY <1>2, <1>4, <2>1, <3>2 DEF CycleTypes
  <2> QED
    BY <1>4, <2>2, <2>3 DEF ActOnDecision
<1> QED
  BY <1>1, <1>3, <1>4

(* A cycle that ends has neither a goal nor a plan.                        *)
LEMMA EndedCycles ==
  ASSUME PlanInv, CycleTypes, NEW p \in Processes, End(p)
  PROVE  \A q \in Processes : /\ at'[q] # "idle" => cycle'[q].goal \in CycleGoals
                              /\ cycle'[q].plan <= made.plans
<1>0. /\ made \in [tasks : Nat, plans : Nat] /\ at \in [Processes -> CyclePlaces]
      /\ cycle \in [Processes -> CycleRecord]
  BY DEF PlanInv, LoopTypes
<1> SUFFICES ASSUME NEW q \in Processes
             PROVE  /\ at'[q] # "idle" => cycle'[q].goal \in CycleGoals
                    /\ cycle'[q].plan <= made.plans
  OBVIOUS
<1>1. CASE q = p
  <2>1. at'[q] = "idle" /\ cycle'[q] = NoCycle
    BY <1>0, <1>1 DEF End
  <2> QED
    BY <1>0, <2>1 DEF NoCycle
<1>2. CASE q # p
  <2>1. at'[q] = at[q] /\ cycle'[q] = cycle[q]
    BY <1>0, <1>2 DEF End
  <2> QED
    BY <2>1 DEF CycleTypes
<1> QED
  BY <1>1, <1>2

LEMMA LookKeepsTypes ==
  ASSUME PlanInv, CycleTypes, NEW p \in Processes, LookForPlan(p)
  PROVE  CycleTypes'
<1>0. /\ made \in [tasks : Nat, plans : Nat] /\ at \in [Processes -> CyclePlaces]
      /\ cycle \in [Processes -> CycleRecord] /\ MaxPlans \in Nat
  BY CognitiveAssumption DEF PlanInv, LoopTypes
<1>1. /\ UNCHANGED <<plans, rewrite>> /\ crashes' = crashes /\ mishaps' = mishaps
      /\ at[p] = "plans"
  BY DEF LookForPlan, planVars
<1>2. CASE End(p) /\ UNCHANGED made
  BY <1>1, <1>2, EndedCycles DEF CycleTypes
<1>3. CASE /\ made.plans < MaxPlans
           /\ made' = [made EXCEPT !.plans = @ + 1]
           /\ cycle' = [cycle EXCEPT ![p].plan = made.plans + 1]
           /\ at' = [at EXCEPT ![p] = "tasks"]
  <2>1. made'.plans = made.plans + 1 /\ made'.tasks = made.tasks
    BY <1>0, <1>3
  <2>2. ASSUME NEW q \in Processes
        PROVE  /\ at'[q] # "idle" => cycle'[q].goal \in CycleGoals
               /\ cycle'[q].plan <= made'.plans
    <3>1. cycle[q] \in CycleRecord /\ cycle[q].plan <= made.plans
      BY <1>0 DEF CycleTypes
    <3>2. CASE q = p
      <4>1. cycle'[q] = [cycle[q] EXCEPT !.plan = made.plans + 1]
        BY <1>0, <1>3, <3>2
      <4>2. cycle'[q].goal = cycle[q].goal /\ cycle'[q].plan = made.plans + 1
        BY <3>1, <4>1 DEF CycleRecord
      <4> QED
        BY <1>0, <1>1, <2>1, <3>2, <4>2 DEF CycleTypes
    <3>3. CASE q # p
      <4>1. cycle'[q] = cycle[q] /\ at'[q] = at[q]
        BY <1>0, <1>3, <3>3
      <4> QED
        BY <1>0, <2>1, <3>1, <4>1 DEF CycleTypes, CycleRecord
    <3> QED
      BY <3>2, <3>3
  <2>3. made'.plans <= MaxPlans
    BY <1>0, <1>3, <2>1
  <2> QED
    BY <1>1, <2>1, <2>2, <2>3 DEF CycleTypes
<1> QED
  BY <1>2, <1>3 DEF LookForPlan

(* The tasks of a plan are made and linked: its goal and its id stay.      *)
LEMMA MakingKeepsTypes ==
  ASSUME PlanInv, CycleTypes, NEW p \in Processes, CreateTask(p) \/ LinkTasks(p)
  PROVE  CycleTypes'
<1>0. /\ made \in [tasks : Nat, plans : Nat] /\ at \in [Processes -> CyclePlaces]
      /\ cycle \in [Processes -> CycleRecord] /\ MaxTasks \in Nat
  BY CognitiveAssumption DEF PlanInv, LoopTypes
<1>1. /\ UNCHANGED <<plans, rewrite>> /\ crashes' = crashes /\ at[p] # "idle"
      /\ mishaps' \subseteq Mishaps
  BY SaveNotes DEF CreateTask, LinkTasks, planVars, CycleTypes
<1>2. \A q \in Processes \ {p} : at'[q] = at[q] /\ cycle'[q] = cycle[q]
  BY <1>0 DEF CreateTask, LinkTasks
<1>3. cycle'[p].goal = cycle[p].goal /\ cycle'[p].plan = cycle[p].plan
  <2>1. CASE LinkTasks(p)
    BY <2>1 DEF LinkTasks
  <2>2. CASE CreateTask(p)
    <3>1. cycle' = [cycle EXCEPT ![p].tasks = Append(@, made.tasks + 1)]
      BY <2>2 DEF CreateTask
    <3>2. cycle'[p] = [cycle[p] EXCEPT !.tasks = Append(@, made.tasks + 1)]
      BY <1>0, <3>1
    <3>3. cycle[p] \in CycleRecord
      BY <1>0
    <3> QED
      BY <3>2, <3>3 DEF CycleRecord
  <2> QED
    BY <2>1, <2>2
<1>4. made' = made \/ (made.tasks < MaxTasks /\ made' = [made EXCEPT !.tasks = @ + 1])
  BY DEF CreateTask, LinkTasks
<1>5. made'.plans = made.plans /\ made'.tasks <= MaxTasks
  BY <1>0, <1>4 DEF CycleTypes
<1>6. ASSUME NEW q \in Processes
      PROVE  /\ at'[q] # "idle" => cycle'[q].goal \in CycleGoals
             /\ cycle'[q].plan <= made'.plans
  <2>1. CASE q = p
    BY <1>1, <1>3, <1>5, <2>1 DEF CycleTypes
  <2>2. CASE q # p
    BY <1>2, <1>5, <2>2 DEF CycleTypes
  <2> QED
    BY <2>1, <2>2
<1> QED
  BY <1>1, <1>5, <1>6 DEF CycleTypes

LEMMA SavePlanKeepsTypes ==
  ASSUME PlanInv, CycleTypes, NEW p \in Processes, SavePlan(p)
  PROVE  CycleTypes'
<1>1. cycle[p] \in CycleRecord /\ cycle[p].goal \in CycleGoals
  BY DEF PlanInv, LoopTypes, CycleTypes, SavePlan
<1>2. [id |-> cycle[p].plan, goal |-> cycle[p].goal,
       status |-> "pending", tasks |-> cycle[p].tasks] \in Plan
  BY <1>1 DEF CycleRecord, Plan, PlanStatuses, OpenPlan
<1>3. plans' \in Seq(Plan)
  BY <1>2, AppendProperties DEF SavePlan, CycleTypes
<1>4. UNCHANGED <<rewrite, made, crashes, mishaps>> /\ End(p)
  BY DEF SavePlan
<1> QED
  BY <1>3, <1>4, EndedCycles DEF CycleTypes

LEMMA RestartKeepsTypes ==
  ASSUME PlanInv, CycleTypes, NEW p \in Processes, Restart(p)
  PROVE  CycleTypes'
<1>1. <<>> \in Seq(Plan)
  BY EmptySeq
<1>2. rewrite'.plans \in Seq(Plan)
  BY <1>1 DEF Restart, CycleTypes, NoRewrite
<1>3. mishaps' \subseteq Mishaps
  BY DEF Restart, CycleTypes, Noted, Mishaps
<1>4. crashes' \in 0 .. MaxCrashes
  BY CognitiveAssumption DEF Restart, CycleTypes
<1>5. UNCHANGED <<plans, made>> /\ End(p)
  BY DEF Restart
<1> QED
  BY <1>2, <1>3, <1>4, <1>5, EndedCycles DEF CycleTypes

LEMMA UpdateKeepsTypes ==
  ASSUME PlanInv, CycleTypes, BeginUpdate \/ EndUpdate
  PROVE  CycleTypes'
<1>1. <<>> \in Seq(Plan) /\ UNCHANGED <<at, cycle, made, crashes>>
  BY EmptySeq DEF BeginUpdate, EndUpdate
<1>2. mishaps' \subseteq Mishaps
  BY DEF BeginUpdate, EndUpdate, CycleTypes, Overlap, Noted, Mishaps
<1>3. CASE BeginUpdate
  BY <1>1, <1>2, <1>3 DEF BeginUpdate, CycleTypes
<1>4. CASE EndUpdate
  <2>1. rewrite \in Rewriting
    BY <1>4 DEF EndUpdate, PlanInv, LoopTypes
  <2>2. rewrite.status \in PlanStatuses
    BY <2>1 DEF Rewriting
  <2> DEFINE l == Len(rewrite.plans)
  <2>3. l \in Nat /\ DOMAIN rewrite.plans = 1 .. l /\ \A i \in 1 .. l : rewrite.plans[i] \in Plan
    BY ElementOfSeq, LenProperties DEF CycleTypes
  <2>4. plans' = [i \in 1 .. l |-> IF rewrite.plans[i].id = rewrite.id
                                   THEN [rewrite.plans[i] EXCEPT !.status = rewrite.status]
                                   ELSE rewrite.plans[i]]
    BY <1>4, <2>3 DEF EndUpdate
  <2>5. \A i \in 1 .. l : [rewrite.plans[i] EXCEPT !.status = rewrite.status] \in Plan
    BY <2>2, <2>3, PlanChanges
  <2>6. plans' \in [1 .. l -> Plan]
    BY <2>3, <2>4, <2>5, Zenon
  <2>7. plans' \in Seq(Plan)
    BY <2>3, <2>6
  <2>8. rewrite'.plans = <<>>
    BY <1>4 DEF EndUpdate, NoRewrite
  <2> QED
    BY <1>1, <1>2, <2>7, <2>8 DEF CycleTypes
<1> QED
  BY <1>3, <1>4

LEMMA CycleStart == CognitiveInit => CycleTypes
<1> SUFFICES ASSUME CognitiveInit PROVE CycleTypes
  OBVIOUS
<1>1. <<>> \in Seq(Plan)
  BY EmptySeq
<1> QED
  BY <1>1, CognitiveAssumption DEF CognitiveInit, CycleTypes, NoRewrite, NoCycle, Mishaps

LEMMA CycleStep == PlanInv /\ CycleTypes /\ [CognitiveNext]_cognitiveVars => CycleTypes'
<1> SUFFICES ASSUME PlanInv, CycleTypes, [CognitiveNext]_cognitiveVars PROVE CycleTypes'
  OBVIOUS
<1>1. ASSUME NEW p \in Processes,
             \/ Evaluate(p) \/ LookForPlan(p) \/ CreateTask(p)
             \/ LinkTasks(p) \/ SavePlan(p) \/ Restart(p)
      PROVE  CycleTypes'
  BY <1>1, EvaluateKeepsTypes, LookKeepsTypes, MakingKeepsTypes, SavePlanKeepsTypes,
     RestartKeepsTypes
<1>2. CASE StartNext \/ CloseTask \/ DeleteTask \/ ClearDone \/ CreateGoalTask
  BY <1>2, RoutesKeepTypes
<1>3. CASE BeginUpdate \/ EndUpdate
  BY <1>3, UpdateKeepsTypes
<1>4. CASE UNCHANGED cognitiveVars
  BY <1>4 DEF cognitiveVars, CycleTypes
<1> QED
  BY <1>1, <1>2, <1>3, <1>4 DEF CognitiveNext

(* CognitiveTypeOK: whatever the two processes append to plans.jsonl and   *)
(* write into tasks.json, alone, at the same time or until one dies, reads *)
(* as plans and tasks again, and no two tasks of the file have one id.     *)
THEOREM CognitiveTypeCorrect == CognitiveSpec => []CognitiveTypeOK
<1>3. PlanInv /\ LinkInv /\ CycleTypes => CognitiveTypeOK
  <2> SUFFICES ASSUME PlanInv, LinkInv, CycleTypes PROVE CognitiveTypeOK
    OBVIOUS
  <2>1. Stored(file, made.tasks) /\ file \in Seq(Task)
    BY DEF LinkInv, TaskTypes, Stored
  <2>2. mem \in [Processes -> Seq(Task)] /\ loaded \in [Processes -> BOOLEAN]
    BY DEF LinkInv, TaskTypes
  <2>4. \A i, j \in DOMAIN file : file[i].id = file[j].id => i = j
    BY <2>1, LenProperties DEF Stored
  <2>5. at \in [Processes -> {"idle", "plans", "tasks", "link", "save"}]
    BY DEF PlanInv, LoopTypes, CyclePlaces, Making
  <2>6. made.tasks \in 0 .. MaxTasks /\ made.plans \in 0 .. MaxPlans
    BY CognitiveAssumption DEF PlanInv, LoopTypes, CycleTypes
  <2> QED
    BY <2>1, <2>2, <2>4, <2>5, <2>6, Zenon DEF CycleTypes, CognitiveTypeOK
<1> QED
  BY <1>3, PlanStart, PlanStep, LinkStart, LinkStep, CycleStart, CycleStep, PTL
  DEF CognitiveSpec
-----------------------------------------------------------------------------
(* The parts side by side (MCCognition).                                   *)

(* A step is a step of one part, or of none.                               *)
LEMMA OneAtATime ==
  ASSUME [CognitionNext]_<<turn, vars, cognitiveVars, goalVars, proposalVars, selfVars>>
  PROVE  /\ [Next]_vars
         /\ [CognitiveNext]_cognitiveVars
         /\ [GoalStoreNext]_goalVars
         /\ [ProposalNext]_proposalVars
         /\ [SelfModelNext]_selfVars
<1>1. CASE UNCHANGED <<turn, vars, cognitiveVars, goalVars, proposalVars, selfVars>>
  BY <1>1
<1>2. CASE turn = "review" /\ Next /\ UNCHANGED <<cognitiveVars, goalVars, proposalVars, selfVars>>
  BY <1>2
<1>3. CASE turn = "cycles" /\ CognitiveNext /\ UNCHANGED <<vars, goalVars, proposalVars, selfVars>>
  BY <1>3
<1>4. CASE turn = "goals" /\ GoalStoreNext
           /\ UNCHANGED <<vars, cognitiveVars, proposalVars, selfVars>>
  BY <1>4
<1>5. CASE turn = "proposals" /\ ProposalNext
           /\ UNCHANGED <<vars, cognitiveVars, goalVars, selfVars>>
  BY <1>5
<1>6. CASE turn = "self" /\ SelfModelNext
           /\ UNCHANGED <<vars, cognitiveVars, goalVars, proposalVars>>
  BY <1>6
<1> QED
  BY <1>1, <1>2, <1>3, <1>4, <1>5, <1>6 DEF CognitionNext

(* What decides what is worked on is all of its parts, each as its own     *)
(* specification has it: what holds of one of them holds of the whole.     *)
THEOREM CognitionIsItsParts ==
  CognitionSpec => /\ Spec /\ CognitiveSpec /\ GoalStoreSpec /\ ProposalSpec
                   /\ SelfModelSpec
<1>1. CognitionInit => /\ Init /\ CognitiveInit /\ GoalStoreInit /\ ProposalInit
                       /\ SelfModelInit
  BY DEF CognitionInit
<1>2. [CognitionNext]_<<turn, vars, cognitiveVars, goalVars, proposalVars, selfVars>>
        => /\ [Next]_vars
           /\ [CognitiveNext]_cognitiveVars
           /\ [GoalStoreNext]_goalVars
           /\ [ProposalNext]_proposalVars
           /\ [SelfModelNext]_selfVars
  BY OneAtATime
<1> QED
  BY <1>1, <1>2, PTL
  DEF CognitionSpec, Spec, CognitiveSpec, GoalStoreSpec, ProposalSpec, SelfModelSpec

(* TypesOK: all the parts keep in their files and in memory stays what it  *)
(* may be, for all the values of their constants.                          *)
THEOREM CognitionTypeCorrect == CognitionSpec => []TypesOK
<1>1. /\ TypeOK /\ CognitiveTypeOK /\ GoalStoreTypeOK /\ ProposalTypeOK /\ SelfModelTypeOK
      => TypesOK
  BY Zenon DEF TypesOK
<1> QED
  BY <1>1, CognitionIsItsParts, ReviewTypeCorrect, CognitiveTypeCorrect, GoalStoreTypeCorrect,
     ProposalTypeCorrect, SelfModelTypeCorrect, PTL

(* What each part keeps holds of all of them together, as long as fewer    *)
(* processes die than the history of the modes has entries.                *)
THEOREM CognitionCorrect ==
  ASSUME MaxKills < HistMax
  PROVE  CognitionSpec =>
           [](/\ AutoIsHarmless /\ RouteWithinApproval /\ SensitiveIsBlocked
              /\ OnePlanInWork /\ TasksAndPlansAgree /\ LoopFollowsServer
              /\ OnlyTheNamedIsMarked /\ ChangesHandledOnce)
BY CognitionIsItsParts, AutoIsHarmlessCorrect, RouteWithinApprovalCorrect,
   SensitiveIsBlockedCorrect, OnePlanInWorkCorrect, TasksAndPlansAgreeCorrect,
   LoopFollowsServerCorrect, OnlyTheNamedIsMarkedCorrect, ChangesHandledOnceCorrect, PTL
==============================================================================
