------------------------- MODULE NameChecks_proofs --------------------------
(***************************************************************************)
(* Proofs about the resolver and the DNSSEC validation of NameChecks and    *)
(* the denial of existence of Denial, as steps of Probes: for every bound   *)
(* on referrals, glueless names, servers, zones, owners and failures.       *)
(***************************************************************************)
EXTENDS Probes, SequenceTheorems, FiniteSetTheorems, WellFoundedInduction, TLAPS

\* A set of numbers that is not empty has a least one: induction over Nat, as far as it
\* can be used without an operator as a parameter.
LEMMA NatMin ==
  ASSUME NEW T \in SUBSET Nat, T # {}
  PROVE \E x \in T : \A y \in T : x <= y
<1> DEFINE R == {ss \in Nat \X Nat : ss[1] < ss[2]}
<1>1. R = OpToRel(<, Nat)
  BY DEF OpToRel
<1>2. IsWellFoundedOn(R, Nat)
  BY <1>1, NatLessThanWellFounded
<1> HIDE DEF R
<1>3. PICK x \in T : \A y \in T : ~(<<y, x>> \in R)
  BY <1>2, WFMin
<1>4. \A y \in T : ~(y < x)
  BY <1>3 DEF R
<1> QED BY <1>4

\* The last element of a sequence and what stands before it.
LEMMA LastAndFront ==
  ASSUME NEW S, NEW s \in Seq(S), s # <<>>
  PROVE /\ Len(s) \in Nat /\ Len(s) >= 1
        /\ Last(s) = s[Len(s)] /\ Last(s) \in S
        /\ Front(s) \in Seq(S) /\ Len(Front(s)) = Len(s) - 1
        /\ \A i \in 1..(Len(s) - 1) : Front(s)[i] = s[i]
<1>1. PICK n \in Nat : n = Len(s) /\ n >= 1
  BY EmptySeq, LenProperties
<1>2. \A i \in 1..n : s[i] \in S
  BY <1>1, ElementOfSeq
<1>3. Last(s) = s[n] /\ Last(s) \in S
  BY <1>1, <1>2 DEF Last
<1>4. Front(s) = SubSeq(s, 1, n - 1)
  BY <1>1 DEF Front
<1>5. /\ Front(s) \in Seq(S)
      /\ Len(Front(s)) = IF 1 <= n - 1 THEN n - 1 - 1 + 1 ELSE 0
      /\ \A i \in 1..(n - 1 - 1 + 1) : Front(s)[i] = s[1 + i - 1]
  BY <1>1, <1>2, <1>4, SubSeqProperties
<1>6. Len(Front(s)) = n - 1
  BY <1>1, <1>5
<1>7. ASSUME NEW i \in 1..(n - 1) PROVE Front(s)[i] = s[i]
  <2>1. i \in 1..(n - 1 - 1 + 1) /\ 1 + i - 1 = i
    BY <1>1
  <2> QED BY <1>5, <2>1
<1> QED
  BY <1>1, <1>3, <1>5, <1>6, <1>7

-----------------------------------------------------------------------------
(* The budget of queries.                                                   *)

\* What a call at depth d may still cost through a call below it.
Beyond(d) == IF d < MaxGlueless THEN Budget[d + 1] ELSE 0

\* A function that is the budget from one depth on.
BudgetFrom(f, low) ==
    /\ f \in [low..MaxGlueless -> Nat]
    /\ \A d \in low..MaxGlueless :
          f[d] = MaxReferrals * (MaxServers + IF d < MaxGlueless THEN f[d + 1] ELSE 0)

\* There is a function that satisfies the equation of the budget.
LEMMA BudgetExists == \E f : BudgetFrom(f, 0)
<1> USE NameChecksAssumption
<1> DEFINE Short == {k \in 0..MaxGlueless : ~\E f : BudgetFrom(f, MaxGlueless - k)}
<1>1. ASSUME Short # {} PROVE FALSE
  <2>1. PICK k \in Short : \A j \in Short : k <= j
    <3>1. Short \in SUBSET Nat
      OBVIOUS
    <3> HIDE DEF Short
    <3> QED BY <1>1, <3>1, NatMin
  <2>2. k \in 0..MaxGlueless /\ ~\E f : BudgetFrom(f, MaxGlueless - k)
    BY <2>1
  <2>3. CASE k = 0
    <3> DEFINE g == [d \in MaxGlueless..MaxGlueless |-> MaxReferrals * MaxServers]
    <3>1. BudgetFrom(g, MaxGlueless)
      BY DEF BudgetFrom
    <3> QED BY <2>2, <2>3, <3>1
  <2>4. CASE k # 0
    <3>1. k - 1 \in 0..MaxGlueless /\ k - 1 \notin Short
      BY <2>1, <2>2, <2>4
    <3>2. PICK f : BudgetFrom(f, MaxGlueless - (k - 1))
      BY <3>1
    <3> DEFINE low == MaxGlueless - k
               g == [d \in low..MaxGlueless |->
                       IF d = low THEN MaxReferrals * (MaxServers + f[low + 1]) ELSE f[d]]
    <3>3. low \in Nat /\ low + 1 \in Nat /\ low < MaxGlueless /\ MaxGlueless - (k - 1) = low + 1
      BY <2>2, <2>4
    <3>4. f \in [(low + 1)..MaxGlueless -> Nat]
      BY <3>2, <3>3 DEF BudgetFrom
    <3> HIDE DEF low
    <3>5. f[low + 1] \in Nat
      BY <3>3, <3>4
    <3>6. g \in [low..MaxGlueless -> Nat]
      BY <3>3, <3>4, <3>5
    <3>7. ASSUME NEW d \in low..MaxGlueless
          PROVE g[d] = MaxReferrals * (MaxServers + IF d < MaxGlueless THEN g[d + 1] ELSE 0)
      <4>1. CASE d = low
        BY <4>1, <3>3, <3>5
      <4>2. CASE d # low
        <5>1. d \in (low + 1)..MaxGlueless
          BY <4>2, <3>3
        <5>2. f[d] = MaxReferrals * (MaxServers + IF d < MaxGlueless THEN f[d + 1] ELSE 0)
          BY <5>1, <3>2, <3>3 DEF BudgetFrom
        <5>3. g[d] = f[d] /\ (d < MaxGlueless => g[d + 1] = f[d + 1])
          BY <5>1, <4>2, <3>3
        <5> QED BY <5>2, <5>3
      <4> QED BY <4>1, <4>2
    <3>8. BudgetFrom(g, low)
      BY <3>6, <3>7 DEF BudgetFrom
    <3> QED BY <2>2, <3>8 DEF low
  <2> QED BY <2>3, <2>4
<1>2. MaxGlueless \notin Short
  BY <1>1
<1> QED BY <1>2

\* The budget is what its equation says it is.
LEMMA BudgetEquation ==
  /\ Budget \in [0..MaxGlueless -> Nat]
  /\ \A d \in 0..MaxGlueless : Budget[d] = MaxReferrals * (MaxServers + Beyond(d))
<1> USE NameChecksAssumption
<1> DEFINE Rule(f) == [d \in 0..MaxGlueless |->
                         MaxReferrals * (MaxServers + IF d < MaxGlueless THEN f[d + 1] ELSE 0)]
<1>1. PICK f : BudgetFrom(f, 0)
  BY BudgetExists
<1>2. f = Rule(f)
  BY <1>1 DEF BudgetFrom
<1>3. Budget = Rule(Budget)
  BY <1>2 DEF Budget
<1>4. \A d \in 0..MaxGlueless : Budget[d] = MaxReferrals * (MaxServers + Beyond(d))
  BY <1>3 DEF Beyond
<1>5. ASSUME NEW d \in 0..MaxGlueless, Budget[d] \notin Nat PROVE FALSE
  <2> DEFINE Odd == {k \in 0..MaxGlueless : Budget[MaxGlueless - k] \notin Nat}
  <2>1. Odd \in SUBSET Nat /\ Odd # {}
    <3>1. PICK j \in 0..MaxGlueless : MaxGlueless - j = d
      <4>1. MaxGlueless - d \in 0..MaxGlueless /\ MaxGlueless - (MaxGlueless - d) = d
        OBVIOUS
      <4> QED BY <4>1
    <3>2. Budget[MaxGlueless - j] \notin Nat
      BY <1>5, <3>1
    <3>3. j \in Odd
      BY <3>1, <3>2
    <3>4. Odd \in SUBSET Nat
      OBVIOUS
    <3> HIDE DEF Odd
    <3> QED BY <3>3, <3>4
  <2>2. PICK k \in Odd : \A j \in Odd : k <= j
    <3> HIDE DEF Odd
    <3> QED BY <2>1, NatMin
  <2> DEFINE e == MaxGlueless - k
  <2>3. k \in Nat /\ e \in 0..MaxGlueless /\ Budget[e] \notin Nat
    BY <2>2
  <2>4. Beyond(e) \in Nat
    <3>1. CASE e < MaxGlueless
      <4>1. k - 1 \in 0..MaxGlueless /\ k - 1 \notin Odd /\ MaxGlueless - (k - 1) = e + 1
        BY <2>2, <2>3, <3>1
      <4> QED BY <3>1, <4>1 DEF Beyond
    <3>2. CASE ~(e < MaxGlueless)
      BY <3>2 DEF Beyond
    <3> QED BY <3>1, <3>2
  <2>5. Budget[e] = MaxReferrals * (MaxServers + Beyond(e))
    BY <1>4, <2>3
  <2> HIDE DEF e
  <2> QED BY <2>3, <2>4, <2>5
<1>6. Budget \in [0..MaxGlueless -> Nat]
  <2>1. \A d \in 0..MaxGlueless : Budget[d] \in Nat
    BY <1>5
  <2>2. DOMAIN Budget = 0..MaxGlueless /\ Budget = [d \in 0..MaxGlueless |-> Budget[d]]
    BY <1>3
  <2> HIDE <1>3
  <2> QED BY <2>1, <2>2
<1> QED BY <1>4, <1>6

-----------------------------------------------------------------------------
(* The steps of the other probes.                                           *)

\* The probes of this family.
NameProbes == {"resolve"} \cup PolicyChecks

\* While one of these probes runs, only its own steps are taken; which probe runs, and
\* against whom, never changes.
LEMMA NameFamily ==
  ASSUME [Next]_vars
  PROVE /\ probe' = probe /\ peer' = peer
        /\ probe \in NameProbes => NameStep \/ UNCHANGED <<run, names>>
<1> USE DEF NameProbes, PolicyChecks
<1>1. CASE HandshakeStep
  BY <1>1 DEF HandshakeStep, HandshakeProbes, Probes12, Probes13, Receive, Send, SendAgain,
              ReadNothing, LinkBreaks
<1>2. CASE FeatureStep
  BY <1>2 DEF FeatureStep, FeatureKinds, EchoProbes, Ask, Tell
<1>3. CASE QuicStep
  BY <1>3 DEF QuicStep, Reach, Arrives, Settles, ReadVersions
<1>4. CASE AppStep
  BY <1>4 DEF AppStep, AppKinds, Write, Piece, Ends, Fails
<1>5. CASE NameStep
  BY <1>5 DEF NameStep, Resolve, AskSystem, FetchSigned, Climb, RootKeys, Descend
<1>6. CASE DenialStep
  BY <1>6 DEF DenialStep, Prove
<1>7. CASE UNCHANGED vars
  BY <1>7 DEF vars, run
<1> QED
  BY <1>1, <1>2, <1>3, <1>4, <1>5, <1>6, <1>7 DEF Next

-----------------------------------------------------------------------------
(* The resolver: what the calls that run may still cost.                    *)

\* The calls of the resolver.
Calls == [depth : 0..MaxGlueless, referrals : 0..MaxReferrals - 1, servers : 1..MaxServers]

\* The referrals a call has left, each with all its servers and a call below it.
OwedBy(c) == (MaxReferrals - c.referrals - 1) * (MaxServers + Beyond(c.depth))

\* x is what the calls of s owe together: the last of their partial sums.
Sums(w, s) ==
    /\ w \in [0..Len(s) -> Nat] /\ w[0] = 0
    /\ \A i \in 1..Len(s) : w[i] = w[i - 1] + OwedBy(s[i])

\* What the calls on the stack owe together.
Owes(s, x) == \E w : Sums(w, s) /\ w[Len(s)] = x

\* The cost of a call is a number.
LEMMA BeyondTyped == \A d \in 0..MaxGlueless : Beyond(d) \in Nat
  BY BudgetEquation, NameChecksAssumption DEF Beyond

\* So is what a call owes.
LEMMA OwedByTyped == \A c \in Calls : OwedBy(c) \in Nat
<1> SUFFICES ASSUME NEW c \in Calls PROVE OwedBy(c) \in Nat
  OBVIOUS
<1>1. MaxReferrals - c.referrals - 1 \in Nat
  BY NameChecksAssumption DEF Calls
<1>2. MaxServers + Beyond(c.depth) \in Nat
  BY NameChecksAssumption, BeyondTyped DEF Calls
<1> QED
  BY <1>1, <1>2 DEF OwedBy

\* One referral followed is one owed less.
LEMMA OwedAfterReferral ==
  ASSUME NEW c \in Calls, NEW n \in 1..MaxServers
  PROVE LET d == [c EXCEPT !.referrals = @ + 1, !.servers = n]
        IN  c.referrals + 1 # MaxReferrals =>
            /\ d \in Calls /\ d.depth = c.depth /\ d.servers = n
            /\ OwedBy(c) = OwedBy(d) + MaxServers + Beyond(c.depth)
<1> DEFINE d == [c EXCEPT !.referrals = @ + 1, !.servers = n]
<1>0. SUFFICES ASSUME c.referrals + 1 # MaxReferrals
               PROVE /\ d \in Calls /\ d.depth = c.depth /\ d.servers = n
                     /\ OwedBy(c) = OwedBy(d) + MaxServers + Beyond(c.depth)
  OBVIOUS
<1>1. d \in Calls /\ d.depth = c.depth /\ d.servers = n /\ d.referrals = c.referrals + 1
  <2>1. PICK r \in 0..MaxReferrals - 1 : r = c.referrals
    BY DEF Calls
  <2>2. r + 1 # MaxReferrals
    BY <1>0, <2>1
  <2>3. PICK m \in 0..MaxReferrals - 1 : m = r + 1
    BY <2>2, NameChecksAssumption
  <2>4. d = [c EXCEPT !.referrals = m, !.servers = n]
    BY <2>1, <2>3
  <2> HIDE DEF d
  <2> QED BY <2>1, <2>3, <2>4 DEF Calls
<1> HIDE DEF d
<1>2. PICK x \in Nat : x = MaxServers + Beyond(c.depth)
  BY NameChecksAssumption, BeyondTyped DEF Calls
<1>3. PICK r \in Nat : r = MaxReferrals - d.referrals - 1
  BY <1>1, NameChecksAssumption DEF Calls
<1>4. OwedBy(d) = r * x
  BY <1>1, <1>2, <1>3 DEF OwedBy
<1>5. MaxReferrals - c.referrals - 1 = r + 1
  BY <1>1, <1>3, NameChecksAssumption DEF Calls
<1>6. OwedBy(c) = (r + 1) * x
  BY <1>2, <1>5 DEF OwedBy
<1>7. (r + 1) * x = r * x + x
  OBVIOUS
<1>8. OwedBy(c) = OwedBy(d) + MaxServers + Beyond(c.depth)
  <2>1. MaxServers \in Nat /\ Beyond(c.depth) \in Nat
    BY NameChecksAssumption, BeyondTyped DEF Calls
  <2> QED BY <1>2, <1>4, <1>6, <1>7, <2>1
<1> QED
  BY <1>1, <1>8 DEF d

\* Without a call nothing is owed.
LEMMA OwesNothing == Owes(<<>>, 0)
<1> DEFINE w == [i \in 0..0 |-> 0]
<1>1. Sums(w, <<>>) /\ w[Len(<<>>)] = 0
  BY DEF Sums
<1> QED
  BY <1>1 DEF Owes

\* The last call pays what it owes.
LEMMA OwesFront ==
  ASSUME NEW s \in Seq(Calls), s # <<>>, NEW x \in Nat, Owes(s, x)
  PROVE \E y \in Nat : Owes(Front(s), y) /\ x = y + OwedBy(Last(s))
<1>1. PICK w : Sums(w, s) /\ w[Len(s)] = x
  BY DEF Owes
<1>2. PICK n \in Nat : n = Len(s) /\ n >= 1
  BY LastAndFront
<1> DEFINE f == Front(s)
           v == [i \in 0..(n - 1) |-> w[i]]
<1>3. f \in Seq(Calls) /\ Len(f) = n - 1 /\ \A i \in 1..(n - 1) : f[i] = s[i]
  BY <1>2, LastAndFront
<1>4. /\ w \in [0..n -> Nat] /\ w[0] = 0
      /\ \A i \in 1..n : w[i] = w[i - 1] + OwedBy(s[i])
  BY <1>1, <1>2 DEF Sums
<1> HIDE DEF f
<1>5. Sums(v, f)
  <2>1. v \in [0..Len(f) -> Nat] /\ v[0] = 0
    BY <1>2, <1>3, <1>4
  <2>2. ASSUME NEW i \in 1..(n - 1) PROVE v[i] = v[i - 1] + OwedBy(f[i])
    BY <1>2, <1>3, <1>4
  <2> QED BY <1>3, <2>1, <2>2 DEF Sums
<1>6. v[Len(f)] = w[n - 1] /\ w[n - 1] \in Nat
  <2>1. n - 1 \in 0..(n - 1) /\ n - 1 \in 0..n
    BY <1>2
  <2>2. v[n - 1] = w[n - 1] /\ w[n - 1] \in Nat
    BY <1>4, <2>1
  <2> QED BY <1>3, <2>2
<1>7. x = w[n - 1] + OwedBy(Last(s))
  <2>1. Last(s) = s[n] /\ x = w[n]
    BY <1>1, <1>2, LastAndFront
  <2> QED BY <1>2, <1>4, <2>1
<1> QED
  BY <1>5, <1>6, <1>7 DEF Owes, f

\* A call more owes its share.
LEMMA OwesAppend ==
  ASSUME NEW s \in Seq(Calls), NEW c \in Calls, NEW y \in Nat, Owes(s, y)
  PROVE Owes(Append(s, c), y + OwedBy(c))
<1>1. PICK w : Sums(w, s) /\ w[Len(s)] = y
  BY DEF Owes
<1>2. PICK n \in Nat : n = Len(s)
  BY LenProperties
<1> DEFINE t == Append(s, c)
           v == [i \in 0..(n + 1) |-> IF i = n + 1 THEN y + OwedBy(c) ELSE w[i]]
<1>3. Len(t) = n + 1 /\ t[n + 1] = c /\ \A i \in 1..n : t[i] = s[i]
  BY <1>2, AppendProperties
<1>4. /\ w \in [0..n -> Nat] /\ w[0] = 0 /\ w[n] = y
      /\ \A i \in 1..n : w[i] = w[i - 1] + OwedBy(s[i])
  BY <1>1, <1>2 DEF Sums
<1>5. OwedBy(c) \in Nat
  BY OwedByTyped
<1> HIDE DEF t
<1>6. v \in [0..Len(t) -> Nat] /\ v[0] = 0
  BY <1>3, <1>4, <1>5
<1>7. ASSUME NEW i \in 1..(n + 1) PROVE v[i] = v[i - 1] + OwedBy(t[i])
  <2>1. CASE i = n + 1
    BY <2>1, <1>3, <1>4
  <2>2. CASE i # n + 1
    BY <2>2, <1>3, <1>4
  <2> QED BY <2>1, <2>2
<1>8. Sums(v, t)
  BY <1>3, <1>6, <1>7 DEF Sums
<1>9. v[Len(t)] = y + OwedBy(c)
  BY <1>3
<1> QED
  BY <1>8, <1>9 DEF Owes, t

\* The call that was added is the last.
LEMMA LastOfAppend ==
  ASSUME NEW S, NEW s \in Seq(S), NEW c \in S
  PROVE Append(s, c) \in Seq(S) /\ Append(s, c) # <<>> /\ Last(Append(s, c)) = c
  BY AppendProperties DEF Last

\* The queries sent and the ones that may still come stay within the budget: with no
\* call left they are all sent; else the innermost call has its servers to ask and, for
\* this referral, a call below it, over and above what all calls owe.
Affordable(s, q) ==
    IF s = <<>> THEN q <= Budget[0]
    ELSE \E x \in Nat :
            Owes(s, x) /\ q + x + Last(s).servers + Beyond(Last(s).depth) <= Budget[0]

\* A referral that is followed, or a call that ends there, is within the budget.
LEMMA FollowAffordable ==
  ASSUME NEW s \in Seq(Calls), s # <<>>, NEW n \in 1..MaxServers,
         NEW x \in Nat, Owes(s, x), NEW q \in Nat, q + x <= Budget[0]
  PROVE /\ Follow(s, n) \in Seq(Calls)
        /\ Affordable(Follow(s, n), q)
<1> DEFINE top == Last(s)
           d == [top EXCEPT !.referrals = @ + 1, !.servers = n]
<1>1. Budget[0] \in Nat
  BY BudgetEquation, NameChecksAssumption
<1>2. CASE top.referrals + 1 = MaxReferrals
  BY <1>1, <1>2 DEF Follow, Affordable
<1>3. CASE top.referrals + 1 # MaxReferrals
  <2>1. top \in Calls /\ Front(s) \in Seq(Calls)
    BY LastAndFront
  <2>2. /\ d \in Calls /\ d.depth = top.depth /\ d.servers = n
        /\ OwedBy(top) = OwedBy(d) + MaxServers + Beyond(top.depth)
    BY <1>3, <2>1, OwedAfterReferral
  <2>3. PICK y \in Nat : Owes(Front(s), y) /\ x = y + OwedBy(top)
    BY OwesFront
  <2>4. Follow(s, n) = Append(Front(s), d)
    BY <1>3 DEF Follow
  <2> HIDE DEF d, top
  <2> DEFINE t == Append(Front(s), d)
  <2>5. t \in Seq(Calls) /\ t # <<>> /\ Last(t) = d
    BY <2>1, <2>2, LastOfAppend
  <2>6. Owes(t, y + OwedBy(d))
    BY <2>1, <2>2, <2>3, OwesAppend
  <2>7. OwedBy(d) \in Nat /\ Beyond(d.depth) \in Nat /\ MaxServers \in Nat
    BY <2>2, OwedByTyped, BeyondTyped, NameChecksAssumption DEF Calls
  <2>8. PICK o \in Nat, b \in Nat : o = OwedBy(d) /\ b = Beyond(d.depth)
    BY <2>7
  <2>9. q + (y + o) + n + b <= Budget[0]
    <3>1. PICK m \in Nat : m = MaxServers
      BY <2>7
    <3>2. OwedBy(top) = o + m + b
      BY <2>2, <2>8, <3>1
    <3>3. x = y + (o + m + b)
      BY <2>3, <3>2
    <3>4. PICK all \in Nat : all = Budget[0]
      BY <1>1
    <3>5. q + x <= all /\ n <= m
      BY <3>1, <3>4
    <3>6. q + (y + o) + n + b <= all
      BY <3>3, <3>5
    <3> QED BY <3>4, <3>6
  <2>10. y + o \in Nat /\ Owes(t, y + o) /\ q + (y + o) + Last(t).servers + Beyond(Last(t).depth) <= Budget[0]
    <3>1. Last(t).servers = n /\ Beyond(Last(t).depth) = b
      BY <2>2, <2>5, <2>8
    <3>2. y + o \in Nat /\ y + o = y + OwedBy(d)
      BY <2>8
    <3>3. Owes(t, y + o)
      BY <2>6, <3>2
    <3> QED BY <2>9, <3>1, <3>2, <3>3
  <2> HIDE DEF t
  <2>11. Affordable(t, q)
    BY <2>5, <2>10 DEF Affordable
  <2> QED BY <2>4, <2>5, <2>11 DEF t
<1> QED
  BY <1>2, <1>3

\* While the resolver runs a call is open, and what is open can be afforded.
ResolverInv ==
    probe = "resolve" =>
        /\ stack \in Seq(Calls) /\ queries \in Nat
        /\ pc = "resolve" => stack # <<>>
        /\ Affordable(stack, queries)

\* A new call is a call.
LEMMA CallTyped == \A d \in 0..MaxGlueless : Call(d, MaxServers) \in Calls
  BY NameChecksAssumption DEF Call, Calls

\* A resolution starts with one call and the whole budget.
LEMMA ResolverInit == Init => ResolverInv
<1> SUFFICES ASSUME Init, probe = "resolve" PROVE ResolverInv
  BY DEF ResolverInv
<1> DEFINE c == Call(0, MaxServers)
<1>1. /\ stack = <<c>> /\ queries = 0
  BY DEF Init, NameInit, HandshakeInit, FeatureInit, QuicInit, AppInit, DenialInit, Begin,
         HandshakeProbes, Probes12, Probes13, FeatureKinds, EchoProbes, AppKinds
<1>2. c \in Calls /\ c.depth = 0 /\ c.referrals = 0 /\ c.servers = MaxServers
  BY NameChecksAssumption DEF Call, Calls
<1> HIDE DEF c
<1>3. <<c>> = Append(<<>>, c) /\ <<>> \in Seq(Calls)
  OBVIOUS
<1>4. Owes(<<c>>, 0 + OwedBy(c))
  BY <1>2, <1>3, OwesNothing, OwesAppend
<1>5. PICK b \in Nat : b = Beyond(0)
  BY BeyondTyped, NameChecksAssumption
<1>6. OwedBy(c) = (MaxReferrals - 0 - 1) * (MaxServers + b)
  BY <1>2, <1>5 DEF OwedBy
<1>7. Budget[0] = MaxReferrals * (MaxServers + b)
  BY <1>5, BudgetEquation, NameChecksAssumption
<1>8. PICK r \in Nat : MaxReferrals = r + 1
  <2>1. MaxReferrals - 1 \in Nat /\ MaxReferrals = (MaxReferrals - 1) + 1
    BY NameChecksAssumption
  <2> QED BY <2>1
<1>9. PICK m \in Nat : m = MaxServers + b
  BY <1>5, NameChecksAssumption
<1>10. OwedBy(c) = r * m /\ Budget[0] = r * m + m /\ r * m \in Nat
  <2>1. r + 1 - 0 - 1 = r /\ (r + 1) * m = r * m + m /\ r * m \in Nat
    OBVIOUS
  <2> QED BY <1>6, <1>7, <1>8, <1>9, <2>1
<1>11. Last(<<c>>) = c /\ <<c>> # <<>> /\ <<c>> \in Seq(Calls)
  BY <1>2, <1>3, LastOfAppend
<1>12. Owes(<<c>>, r * m)
  BY <1>4, <1>10
<1>13. 0 + r * m + MaxServers + Beyond(0) <= Budget[0]
  BY <1>5, <1>9, <1>10, NameChecksAssumption
<1>14. Affordable(<<c>>, 0)
  BY <1>2, <1>10, <1>11, <1>12, <1>13 DEF Affordable
<1> QED
  BY <1>1, <1>11, <1>14 DEF ResolverInv

\* The innermost call costs one query and ends: what its caller goes on with is paid for.
LEMMA ReturnAffordable ==
  ASSUME ResolverInv, probe = "resolve", pc = "resolve",
         NEW what, Return(what)
  PROVE /\ stack' \in Seq(Calls) /\ (pc' = "resolve" => stack' # <<>>)
        /\ Affordable(stack', queries + 1)
<1>1. stack \in Seq(Calls) /\ stack # <<>> /\ queries \in Nat /\ Affordable(stack, queries)
  BY DEF ResolverInv
<1>2. PICK x \in Nat :
         Owes(stack, x) /\ queries + x + Top.servers + Beyond(Top.depth) <= Budget[0]
  BY <1>1 DEF Affordable, Top
<1>3. Top \in Calls /\ Front(stack) \in Seq(Calls)
  BY <1>1, LastAndFront DEF Top
<1>4. PICK y \in Nat : Owes(Front(stack), y) /\ x = y + OwedBy(Top)
  BY <1>1, <1>2, OwesFront DEF Top
<1>5. PICK all \in Nat, s \in Nat, b \in Nat, o \in Nat :
         all = Budget[0] /\ s = Top.servers /\ s >= 1 /\ b = Beyond(Top.depth) /\ o = OwedBy(Top)
  <2>1. Budget[0] \in Nat
    BY BudgetEquation, NameChecksAssumption
  <2>2. Top.servers \in Nat /\ Top.servers >= 1
    BY <1>3, NameChecksAssumption DEF Calls
  <2>3. Beyond(Top.depth) \in Nat /\ OwedBy(Top) \in Nat
    BY <1>3, BeyondTyped, OwedByTyped DEF Calls
  <2> QED BY <2>1, <2>2, <2>3
<1>6. queries + 1 + y <= Budget[0] /\ queries + 1 \in Nat
  <2>1. queries + x + s + b <= all /\ x = y + o
    BY <1>2, <1>4, <1>5
  <2>2. PICK q \in Nat : q = queries
    BY <1>1
  <2>3. q + x + s + b <= all /\ x = y + o /\ s >= 1
    BY <1>5, <2>1, <2>2
  <2>4. q + 1 + y <= all
    BY <2>3
  <2> QED BY <1>5, <2>2, <2>4
<1>7. CASE stack' = Follow(Front(stack), 1) /\ Front(stack) # <<>> /\ stack' # <<>>
  <2>1. 1 \in 1..MaxServers
    BY NameChecksAssumption
  <2>2. Follow(Front(stack), 1) \in Seq(Calls) /\ Affordable(Follow(Front(stack), 1), queries + 1)
    BY <1>3, <1>4, <1>6, <1>7, <2>1, FollowAffordable
  <2> QED BY <1>7, <2>2
<1>8. CASE stack' = <<>> /\ pc' = "done"
  <2>1. queries + 1 <= Budget[0]
    <3>1. queries + 1 + y <= all
      BY <1>5, <1>6
    <3> QED BY <1>1, <1>5, <3>1
  <2> QED BY <1>8, <2>1 DEF Affordable
<1> QED
  BY <1>7, <1>8 DEF Return, Conclude

\* Every step keeps what was sent and what is owed within the budget.
LEMMA ResolverStep == ResolverInv /\ [Next]_vars => ResolverInv'
<1> SUFFICES ASSUME ResolverInv, [Next]_vars, probe' = "resolve" PROVE ResolverInv'
  BY DEF ResolverInv
<1>1. probe = "resolve" /\ (NameStep \/ UNCHANGED <<run, names>>)
  BY NameFamily DEF NameProbes
<1>2. CASE UNCHANGED <<run, names>>
  BY <1>2 DEF ResolverInv, run, names
<1>3. CASE Resolve
  <2>1. pc = "resolve" /\ stack \in Seq(Calls) /\ stack # <<>> /\ queries \in Nat /\ Affordable(stack, queries)
    BY <1>1, <1>3 DEF ResolverInv, Resolve
  <2>2. PICK x \in Nat :
           Owes(stack, x) /\ queries + x + Top.servers + Beyond(Top.depth) <= Budget[0]
    BY <2>1 DEF Affordable, Top
  <2>3. Top \in Calls /\ Front(stack) \in Seq(Calls)
    BY <2>1, LastAndFront DEF Top
  <2>4. PICK all \in Nat, s \in Nat, b \in Nat, m \in Nat :
           /\ all = Budget[0] /\ s = Top.servers /\ s >= 1 /\ b = Beyond(Top.depth)
           /\ m = MaxServers
    <3>1. Budget[0] \in Nat
      BY BudgetEquation, NameChecksAssumption
    <3>2. Top.servers \in Nat /\ Top.servers >= 1
      BY <2>3, NameChecksAssumption DEF Calls
    <3>3. Beyond(Top.depth) \in Nat
      BY <2>3, BeyondTyped DEF Calls
    <3> QED BY <3>1, <3>2, <3>3, NameChecksAssumption
  <2>5. queries + x + s + b <= all
    BY <2>2, <2>4
  <2>6. ASSUME NEW what, Return(what), queries' = queries + 1 PROVE ResolverInv'
    <3>1. /\ stack' \in Seq(Calls) /\ (pc' = "resolve" => stack' # <<>>)
          /\ Affordable(stack', queries + 1)
      BY <1>1, <2>1, <2>6, ReturnAffordable
    <3>2. queries' \in Nat
      BY <2>1, <2>6
    <3> QED BY <2>6, <3>1, <3>2 DEF ResolverInv
  <2>7. ASSUME queries' = queries + 1, Top.servers > 1, UNCHANGED <<pc, verdict>>,
               stack' = Append(Front(stack), [Top EXCEPT !.servers = @ - 1])
        PROVE ResolverInv'
    <3> DEFINE d == [Top EXCEPT !.servers = @ - 1]
    <3>1. PICK n \in 1..MaxServers : n = Top.servers - 1
      <4>1. s > 1 /\ s \in 1..MaxServers
        BY <2>3, <2>4, <2>7 DEF Calls
      <4>2. s - 1 \in 1..MaxServers
        BY <4>1, NameChecksAssumption
      <4> QED BY <2>4, <4>2
    <3>2. d = [Top EXCEPT !.servers = n]
      BY <3>1
    <3>3. d \in Calls /\ d.depth = Top.depth /\ d.referrals = Top.referrals /\ d.servers = n
      <4> HIDE DEF d
      <4> QED BY <2>3, <3>2 DEF Calls
    <3> HIDE DEF d
    <3>4. OwedBy(d) = OwedBy(Top)
      BY <3>3 DEF OwedBy
    <3>5. PICK y \in Nat : Owes(Front(stack), y) /\ x = y + OwedBy(Top)
      BY <2>1, <2>2, OwesFront DEF Top
    <3>6. Owes(Append(Front(stack), d), x)
      BY <2>3, <3>3, <3>4, <3>5, OwesAppend
    <3>7. Append(Front(stack), d) \in Seq(Calls) /\ Append(Front(stack), d) # <<>>
          /\ Last(Append(Front(stack), d)) = d
      BY <2>3, <3>3, LastOfAppend
    <3>8. queries + 1 + x + n + b <= all
      BY <2>1, <2>4, <2>5, <3>1
    <3>9. queries + 1 + x + d.servers + Beyond(d.depth) <= Budget[0]
      BY <2>4, <3>3, <3>8
    <3>10. stack' = Append(Front(stack), d)
      BY <2>7 DEF d
    <3>11. Affordable(stack', queries + 1)
      BY <3>6, <3>7, <3>9, <3>10 DEF Affordable
    <3> QED BY <1>1, <2>1, <2>7, <3>7, <3>10, <3>11 DEF ResolverInv
  <2>8. ASSUME NEW n \in 1..MaxServers, Follow(stack, n) # <<>>, stack' = Follow(stack, n),
               queries' = queries + 1, UNCHANGED <<pc, verdict>>
        PROVE ResolverInv'
    <3>1. queries + 1 + x <= Budget[0] /\ queries + 1 \in Nat
      BY <2>1, <2>4, <2>5
    <3>2. Follow(stack, n) \in Seq(Calls) /\ Affordable(Follow(stack, n), queries + 1)
      BY <2>1, <2>2, <3>1, FollowAffordable
    <3> QED BY <1>1, <2>1, <2>8, <3>2 DEF ResolverInv
  <2>9. ASSUME Top.depth < MaxGlueless, stack' = Append(stack, Call(Top.depth + 1, MaxServers)),
               queries' = queries + 1, UNCHANGED <<pc, verdict>>
        PROVE ResolverInv'
    <3>1. PICK e \in 0..MaxGlueless : e = Top.depth + 1
      <4>1. PICK k \in 0..MaxGlueless : k = Top.depth
        BY <2>3 DEF Calls
      <4>2. k + 1 \in 0..MaxGlueless
        BY <2>9, <4>1, NameChecksAssumption
      <4> QED BY <4>1, <4>2
    <3> DEFINE c == Call(e, MaxServers)
    <3>2. c \in Calls /\ c.depth = e /\ c.referrals = 0 /\ c.servers = MaxServers
      BY CallTyped DEF Call
    <3> HIDE DEF c
    <3>3. PICK f \in Nat, o \in Nat : f = Beyond(e) /\ o = OwedBy(c)
      BY <3>2, BeyondTyped, OwedByTyped
    <3>4. b = o + m + f
      <4>1. b = MaxReferrals * (m + f)
        BY <2>4, <2>9, <3>1, <3>3, BudgetEquation DEF Beyond
      <4>2. o = (MaxReferrals - 0 - 1) * (m + f)
        BY <2>4, <3>2, <3>3 DEF OwedBy
      <4>3. PICK r \in Nat : MaxReferrals = r + 1
        <5>1. MaxReferrals - 1 \in Nat /\ MaxReferrals = (MaxReferrals - 1) + 1
          BY NameChecksAssumption
        <5> QED BY <5>1
      <4>4. PICK g \in Nat : g = m + f
        OBVIOUS
      <4>5. r + 1 - 0 - 1 = r /\ (r + 1) * g = r * g + g
        OBVIOUS
      <4>6. b = o + g
        BY <4>1, <4>2, <4>3, <4>4, <4>5
      <4> QED BY <4>4, <4>6
    <3>5. queries + 1 + (x + o) + m + f <= all
      BY <2>1, <2>4, <2>5, <3>4
    <3>6. Owes(Append(stack, c), x + o) /\ x + o \in Nat
      BY <2>1, <2>2, <3>2, <3>3, OwesAppend
    <3>7. Append(stack, c) \in Seq(Calls) /\ Append(stack, c) # <<>> /\ Last(Append(stack, c)) = c
      BY <2>1, <3>2, LastOfAppend
    <3>8. queries + 1 + (x + o) + c.servers + Beyond(c.depth) <= Budget[0]
      BY <2>4, <3>2, <3>3, <3>5
    <3>9. Affordable(Append(stack, c), queries + 1)
      BY <3>6, <3>7, <3>8 DEF Affordable
    <3>10. stack' = Append(stack, c)
      BY <2>9, <3>1 DEF c
    <3> QED BY <1>1, <2>1, <2>9, <3>7, <3>9, <3>10 DEF ResolverInv
  <2>10. CASE Silent
    BY <2>6, <2>7, <2>10 DEF Silent
  <2>11. CASE Final
    BY <2>6, <2>11 DEF Final
  <2>12. CASE Glue
    BY <2>6, <2>8, <2>12 DEF Glue
  <2>13. CASE Glueless
    BY <2>6, <2>9, <2>13 DEF Glueless
  <2> QED
    BY <1>3, <2>10, <2>11, <2>12, <2>13 DEF Resolve
<1> QED
  BY <1>1, <1>2, <1>3 DEF NameStep, PolicyChecks

\* Whatever the servers answer, a resolution sends no more queries than the bounds on
\* referrals and on glueless names allow together (resolver.resolve,
\* _resolve_nameserver): what the open calls may still cost is paid for in advance.
THEOREM ResolutionEnds == Spec => []QueriesBounded
<1>1. ResolverInv => QueriesBounded
  <2> SUFFICES ASSUME ResolverInv, probe = "resolve" PROVE queries <= Budget[0]
    BY DEF QueriesBounded
  <2>1. stack \in Seq(Calls) /\ queries \in Nat /\ Affordable(stack, queries)
    BY DEF ResolverInv
  <2>2. PICK all \in Nat : all = Budget[0]
    BY BudgetEquation, NameChecksAssumption
  <2>3. CASE stack = <<>>
    BY <2>1, <2>3 DEF Affordable
  <2>4. CASE stack # <<>>
    <3>1. PICK x \in Nat :
             Owes(stack, x) /\ queries + x + Last(stack).servers + Beyond(Last(stack).depth) <= Budget[0]
      BY <2>1, <2>4 DEF Affordable
    <3>2. Last(stack) \in Calls
      BY <2>1, <2>4, LastAndFront
    <3>3. PICK s \in Nat, b \in Nat : s = Last(stack).servers /\ b = Beyond(Last(stack).depth)
      BY <3>2, BeyondTyped, NameChecksAssumption DEF Calls
    <3>4. queries + x + s + b <= all
      BY <2>2, <3>1, <3>3
    <3>5. queries <= all
      BY <2>1, <3>4
    <3> QED BY <2>2, <3>5
  <2> QED BY <2>3, <2>4
<1> QED
  BY <1>1, ResolverInit, ResolverStep, PTL DEF Spec

-----------------------------------------------------------------------------
(* The validation of a policy's records.                                    *)

\* What a domain is made of: a chain no longer than _MAX_ZONES, and its parts.
LEMMA DomainTyped ==
  ASSUME NEW d \in Domains
  PROVE /\ Len(d.chain) \in 0..MaxZones /\ DOMAIN d.chain = 1..Len(d.chain)
        /\ d.records \in RecordSets /\ d.denied \in BOOLEAN /\ d.pkix \in BOOLEAN
        /\ d.tlsa \subseteq Tlsa
<1>1. d \in [chain : UNION {[1..n -> Levels] : n \in 0..MaxZones}, root : {"sound", "other_signer"},
             records : RecordSets, denied : BOOLEAN, tlsa : SUBSET Tlsa, pkix : BOOLEAN]
  BY DEF Domains
<1>2. PICK n \in 0..MaxZones : d.chain \in [1..n -> Levels]
  BY <1>1
<1>3. n \in Nat
  BY NameChecksAssumption
<1>4. d.chain \in Seq(Levels) /\ Len(d.chain) = n
  BY <1>2, <1>3, SeqDef, LenProperties
<1> QED
  BY <1>1, <1>2, <1>4

\* A record that is said to match does, and so one that is said to differ.
LEMMA MatchesTrue ==
  ASSUME NEW records \in SUBSET Tlsa, NEW pkix \in BOOLEAN
  PROVE LET matches == MatchesTlsa(records, pkix)
        IN  /\ matches = "yes" => "ee_match" \in records \/ (pkix /\ "pkix_match" \in records)
            /\ matches = "no" => "ee_other" \in records
  BY DEF MatchesTlsa, Tlsa

\* The records came with a signature, or were denied.
Fits == peer.records \in {"sound", "expired"} \/ (peer.records = "absent" /\ peer.denied)

\* What is known at each step of the validation: up to the level reached every zone has
\* a DS on the way up, and is authenticated on the way down; and the chain did not stop
\* the climb.  A verdict is what the property says of it.
PolicyInv ==
    probe \in PolicyChecks =>
        /\ peer \in Domains /\ (probe # "dane" => ~peer.denied)
        /\ pc \in {"ask", "records", "climb", "root", "descend", "done"}
        /\ faults \in Nat
        /\ stack = <<>> /\ queries = 0 /\ level \in 0..Len(peer.chain)
        /\ pc = "records" => probe = "dane" \/ peer.records # "absent"
        /\ pc \in {"climb", "root", "descend"} =>
              Fits /\ (probe = "dane" \/ peer.records # "absent")
        /\ pc = "root" => level = 0
        /\ pc = "descend" => peer.root = "sound" /\ \A i \in 1..level : peer.chain[i] = "sound"
        /\ ValidatedMeansSigned

\* The property, of a verdict about to be given.
Truthful(v, failures) ==
    v # Failed =>
      LET sound == /\ peer.root = "sound"
                   /\ \A i \in DOMAIN peer.chain : peer.chain[i] = "sound"
                   /\ peer.records = "sound" \/ (peer.records = "absent" /\ peer.denied)
      IN  /\ v.validated = "yes" => sound
          /\ sound /\ failures = 0 /\ Len(peer.chain) < MaxZones => v.validated = "yes"
          /\ v.validated = "no" => v.records
          /\ v.matches = "yes" => "ee_match" \in peer.tlsa \/ (peer.pkix /\ "pkix_match" \in peer.tlsa)
          /\ v.matches = "no" => "ee_other" \in peer.tlsa

\* What is reported without a proof is truthful if there was none to be had.
LEMMA UnprovenTruthful ==
  ASSUME probe \in PolicyChecks, peer \in Domains, probe = "dane" \/ peer.records # "absent",
         NEW failures,
         \/ failures # 0
         \/ ~Fits
         \/ peer.records = "expired"
         \/ peer.root # "sound"
         \/ \E i \in DOMAIN peer.chain : peer.chain[i] # "sound"
         \/ Len(peer.chain) >= MaxZones
  PROVE Truthful(Reported(FALSE), failures)
<1>1. peer.tlsa \in SUBSET Tlsa /\ peer.pkix \in BOOLEAN /\ Len(peer.chain) \in 0..MaxZones
  BY DomainTyped
<1> DEFINE m == MatchesTlsa(peer.tlsa, peer.pkix)
<1>2. /\ m = "yes" => "ee_match" \in peer.tlsa \/ (peer.pkix /\ "pkix_match" \in peer.tlsa)
      /\ m = "no" => "ee_other" \in peer.tlsa
  BY <1>1, MatchesTrue
<1> HIDE DEF m
<1> DEFINE sound == /\ peer.root = "sound"
                    /\ \A i \in DOMAIN peer.chain : peer.chain[i] = "sound"
                    /\ peer.records = "sound" \/ (peer.records = "absent" /\ peer.denied)
           v == Reported(FALSE)
<1>3. ~(sound /\ failures = 0 /\ Len(peer.chain) < MaxZones)
  BY <1>1, NameChecksAssumption DEF Fits
<1>4. /\ v.validated \in {"no", "unknown"}
      /\ v.validated = "no" => v.records
      /\ v.matches = IF probe = "dane" THEN m ELSE "unknown"
  BY DEF Reported, Policy, m
<1> HIDE DEF v, sound
<1> QED
  BY <1>2, <1>3, <1>4 DEF Truthful, sound, v

\* A chain that holds throughout proves the records.
LEMMA ProvenTruthful ==
  ASSUME probe \in PolicyChecks, peer \in Domains, NEW failures,
         peer.root = "sound", \A i \in DOMAIN peer.chain : peer.chain[i] = "sound",
         Fits, peer.records # "expired"
  PROVE Truthful(Reported(TRUE), failures)
<1>1. peer.tlsa \in SUBSET Tlsa /\ peer.pkix \in BOOLEAN
  BY DomainTyped
<1> DEFINE m == MatchesTlsa(peer.tlsa, peer.pkix)
<1>2. /\ m = "yes" => "ee_match" \in peer.tlsa \/ (peer.pkix /\ "pkix_match" \in peer.tlsa)
      /\ m = "no" => "ee_other" \in peer.tlsa
  BY <1>1, MatchesTrue
<1> HIDE DEF m
<1> DEFINE v == Reported(TRUE)
<1>3. v.validated = "yes" /\ v.matches = IF probe = "dane" THEN m ELSE "unknown"
  BY DEF Reported, Policy, m
<1> HIDE DEF v
<1> QED
  BY <1>2, <1>3 DEF Truthful, Fits, v

\* No zone has been visited.
LEMMA PolicyInit == Init => PolicyInv
<1> SUFFICES ASSUME Init, probe \in PolicyChecks PROVE PolicyInv
  BY DEF PolicyInv
<1>1. NameInit /\ probe # "resolve"
  BY DEF PolicyChecks, Init, NameInit, HandshakeInit, FeatureInit, QuicInit, AppInit, DenialInit, Begin,
         HandshakeProbes, Probes12, Probes13, FeatureKinds, EchoProbes, AppKinds
<1>2. /\ peer \in Domains /\ (probe # "dane" => ~peer.denied) /\ pc = "ask" /\ faults = 0
      /\ stack = <<>> /\ queries = 0 /\ level = 0
  BY <1>1 DEF NameInit, Begin
<1>3. level \in 0..Len(peer.chain)
  <2>1. Len(peer.chain) \in 0..MaxZones
    BY <1>2, DomainTyped
  <2> QED BY <1>2, <2>1, NameChecksAssumption
<1> QED
  BY <1>2, <1>3 DEF PolicyInv, ValidatedMeansSigned

\* A truthful verdict ends the validation as the invariant wants it.
LEMMA Told ==
  ASSUME PolicyInv, probe \in PolicyChecks, probe' = probe, peer' = peer,
         UNCHANGED <<stack, queries, level>>, faults' \in Nat,
         pc' = "done", Truthful(verdict', faults')
  PROVE PolicyInv'
<1>1. ValidatedMeansSigned'
  BY DEF Truthful, ValidatedMeansSigned
<1> QED
  BY <1>1 DEF PolicyInv

\* The same, where nothing is proven; a lookup that failed is a reason, too.
LEMMA GivenUp ==
  ASSUME PolicyInv, probe \in PolicyChecks, probe' = probe, peer' = peer,
         UNCHANGED <<stack, queries, level>>, probe = "dane" \/ peer.records # "absent",
         FetchFails \/ FetchWorks \/ NoFault, Conclude(Reported(FALSE)),
         \/ FetchFails
         \/ ~Fits
         \/ peer.records = "expired"
         \/ peer.root # "sound"
         \/ \E i \in DOMAIN peer.chain : peer.chain[i] # "sound"
         \/ Len(peer.chain) >= MaxZones
  PROVE PolicyInv'
<1>1. peer \in Domains /\ faults \in Nat
  BY DEF PolicyInv
<1>2. faults' \in Nat /\ (FetchFails => faults' # 0)
  BY <1>1 DEF FetchFails, FetchWorks, NoFault
<1>3. Truthful(Reported(FALSE), faults')
  BY <1>1, <1>2, UnprovenTruthful
<1>4. Truthful(verdict', faults') /\ pc' = "done"
  BY <1>3 DEF Conclude
<1> QED
  BY <1>2, <1>4, Told

\* Every step keeps it: up the chain while there are DS records, down it while they match.
LEMMA PolicyStep == PolicyInv /\ [Next]_vars => PolicyInv'
<1> SUFFICES ASSUME PolicyInv, [Next]_vars, probe' \in PolicyChecks PROVE PolicyInv'
  BY DEF PolicyInv
<1>1. /\ probe \in PolicyChecks /\ probe' = probe /\ peer' = peer
      /\ NameStep \/ UNCHANGED <<run, names>>
  BY NameFamily DEF NameProbes
<1>2. /\ peer \in Domains /\ (probe # "dane" => ~peer.denied)
      /\ faults \in Nat /\ stack = <<>> /\ queries = 0 /\ level \in 0..Len(peer.chain)
  BY <1>1 DEF PolicyInv
<1>3. Len(peer.chain) \in 0..MaxZones /\ DOMAIN peer.chain = 1..Len(peer.chain) /\ MaxZones \in Nat
  BY <1>2, DomainTyped, NameChecksAssumption
<1>4. (FetchWorks \/ FetchFails \/ NoFault) => faults' \in Nat
  BY <1>2 DEF FetchWorks, FetchFails, NoFault
<1>5. CASE UNCHANGED <<run, names>>
  BY <1>5 DEF PolicyInv, ValidatedMeansSigned, Fits, run, names
<1>6. CASE AskSystem
  <2>1. pc = "ask" /\ UNCHANGED names
    BY <1>6 DEF AskSystem
  <2>2. CASE Fault /\ Conclude(Failed)
    <3>1. faults' \in Nat /\ Truthful(verdict', faults') /\ pc' = "done"
      BY <1>2, <2>2 DEF Fault, Conclude, Truthful
    <3> QED BY <1>1, <2>1, <3>1, Told DEF names
  <2>3. CASE NoFault /\ peer.records = "absent" /\ probe # "dane"
             /\ Conclude(Policy(probe, FALSE, "unknown", "unknown"))
    <3>1. ~peer.denied
      BY <1>2, <2>3
    <3> DEFINE v == Policy(probe, FALSE, "unknown", "unknown")
    <3>2. v.validated = "unknown" /\ v.matches = "unknown"
      BY DEF Policy
    <3> HIDE DEF v
    <3>3. Truthful(v, faults')
      BY <2>3, <3>1, <3>2 DEF Truthful
    <3>4. faults' \in Nat /\ Truthful(verdict', faults') /\ pc' = "done"
      BY <1>4, <2>3, <3>3 DEF Conclude, v
    <3> QED BY <1>1, <2>1, <3>4, Told DEF names
  <2>4. CASE NoFault /\ ~(peer.records = "absent" /\ probe # "dane") /\ pc' = "records"
    BY <1>1, <1>2, <1>4, <2>1, <2>4 DEF PolicyInv, ValidatedMeansSigned, names
  <2> QED BY <1>6, <2>2, <2>3, <2>4 DEF AskSystem
<1>7. CASE FetchSigned
  <2>1. pc = "records" /\ UNCHANGED names /\ (probe = "dane" \/ peer.records # "absent")
    BY <1>1, <1>7 DEF FetchSigned, PolicyInv
  <2>2. CASE FetchWorks /\ Fits /\ pc' = "climb"
    BY <1>1, <1>2, <1>4, <2>1, <2>2 DEF PolicyInv, ValidatedMeansSigned, names, Fits
  <2>3. CASE FetchWorks /\ ~Fits /\ Conclude(Reported(FALSE))
    BY <1>1, <2>1, <2>3, GivenUp DEF names
  <2>4. CASE FetchFails /\ Conclude(Reported(FALSE))
    BY <1>1, <2>1, <2>4, GivenUp DEF names
  <2> QED BY <1>7, <2>2, <2>3, <2>4 DEF FetchSigned, Fits
<1>8. CASE Climb
  <2>1. /\ pc = "climb" /\ Fits /\ (probe = "dane" \/ peer.records # "absent")
        /\ UNCHANGED <<stack, queries>>
    BY <1>1, <1>8 DEF Climb, PolicyInv
  <2>2. CASE level = MaxZones /\ Conclude(Reported(FALSE)) /\ NoFault /\ UNCHANGED level
    <3>1. Len(peer.chain) >= MaxZones
      BY <1>2, <1>3, <2>2
    <3> QED BY <1>1, <2>1, <2>2, <3>1, GivenUp
  <2>3. CASE pc' = "root" /\ level' = 0 /\ NoFault
    <3>1. level' \in 0..Len(peer.chain)
      BY <1>3, <2>3
    <3> QED BY <1>1, <1>2, <1>4, <2>1, <2>3, <3>1 DEF PolicyInv, ValidatedMeansSigned, Fits
  <2>4. CASE /\ level # Len(peer.chain) /\ FetchWorks /\ peer.chain[level + 1] = "no_ds"
             /\ Conclude(Reported(FALSE)) /\ UNCHANGED level
    <3>1. level + 1 \in DOMAIN peer.chain
      BY <1>2, <1>3, <2>4
    <3>2. \E i \in DOMAIN peer.chain : peer.chain[i] # "sound"
      BY <2>4, <3>1
    <3> QED BY <1>1, <2>1, <2>4, <3>2, GivenUp
  <2>5. CASE /\ level # Len(peer.chain) /\ FetchWorks
             /\ level' = level + 1 /\ UNCHANGED <<pc, verdict>>
    <3>1. level' \in 0..Len(peer.chain)
      BY <1>2, <1>3, <2>5
    <3> QED BY <1>1, <1>2, <1>4, <2>1, <2>5, <3>1 DEF PolicyInv, ValidatedMeansSigned, Fits
  <2>6. CASE FetchFails /\ Conclude(Reported(FALSE)) /\ UNCHANGED level
    BY <1>1, <2>1, <2>6, GivenUp
  <2> QED BY <1>8, <2>2, <2>3, <2>4, <2>5, <2>6 DEF Climb
<1>9. CASE RootKeys
  <2>1. /\ pc = "root" /\ level = 0 /\ Fits /\ (probe = "dane" \/ peer.records # "absent")
        /\ UNCHANGED names
    BY <1>1, <1>9 DEF RootKeys, PolicyInv
  <2>2. CASE FetchWorks /\ peer.root = "sound" /\ pc' = "descend"
    <3>1. \A i \in 1..0 : peer.chain[i] = "sound"
      OBVIOUS
    <3> QED BY <1>1, <1>2, <1>4, <2>1, <2>2, <3>1 DEF PolicyInv, ValidatedMeansSigned, Fits, names
  <2>3. CASE FetchWorks /\ peer.root # "sound" /\ Conclude(Reported(FALSE))
    BY <1>1, <2>1, <2>3, GivenUp DEF names
  <2>4. CASE FetchFails /\ Conclude(Reported(FALSE))
    BY <1>1, <2>1, <2>4, GivenUp DEF names
  <2> QED BY <1>9, <2>2, <2>3, <2>4 DEF RootKeys, Anchored
<1>10. CASE Descend
  <2>1. /\ pc = "descend" /\ Fits /\ (probe = "dane" \/ peer.records # "absent")
        /\ peer.root = "sound" /\ \A i \in 1..level : peer.chain[i] = "sound"
        /\ UNCHANGED <<stack, queries>>
    BY <1>1, <1>10 DEF Descend, PolicyInv
  <2>2. CASE /\ level = Len(peer.chain) /\ Conclude(Reported(peer.records # "expired"))
             /\ NoFault /\ UNCHANGED level
    <3>1. CASE peer.records = "expired"
      <4>1. Conclude(Reported(FALSE))
        BY <2>2, <3>1
      <4> QED BY <1>1, <2>1, <2>2, <3>1, <4>1, GivenUp
    <3>2. CASE peer.records # "expired"
      <4>1. \A i \in DOMAIN peer.chain : peer.chain[i] = "sound"
        BY <1>3, <2>1, <2>2
      <4>2. Truthful(Reported(TRUE), faults')
        BY <1>1, <1>2, <2>1, <3>2, <4>1, ProvenTruthful
      <4>3. Conclude(Reported(TRUE))
        BY <2>2, <3>2
      <4>4. Truthful(verdict', faults') /\ pc' = "done" /\ faults' \in Nat
        BY <1>4, <2>2, <4>2, <4>3 DEF Conclude
      <4> QED BY <1>1, <2>1, <2>2, <4>4, Told
    <3> QED BY <3>1, <3>2
  <2>3. CASE /\ level # Len(peer.chain) /\ FetchWorks /\ peer.chain[level + 1] = "sound"
             /\ level' = level + 1 /\ UNCHANGED <<pc, verdict>>
    <3>1. level' \in 0..Len(peer.chain)
      BY <1>2, <1>3, <2>3
    <3>2. \A i \in 1..(level + 1) : peer.chain[i] = "sound"
      <4>1. \A i \in 1..(level + 1) : i \in 1..level \/ i = level + 1
        BY <1>2, <1>3
      <4> QED BY <2>1, <2>3, <4>1
    <3> QED BY <1>1, <1>2, <1>4, <2>1, <2>3, <3>1, <3>2 DEF PolicyInv, ValidatedMeansSigned, Fits
  <2>4. CASE /\ level # Len(peer.chain) /\ FetchWorks /\ peer.chain[level + 1] # "sound"
             /\ Conclude(Reported(FALSE)) /\ UNCHANGED level
    <3>1. level + 1 \in DOMAIN peer.chain
      BY <1>2, <1>3, <2>4
    <3>2. \E i \in DOMAIN peer.chain : peer.chain[i] # "sound"
      BY <2>4, <3>1
    <3> QED BY <1>1, <2>1, <2>4, <3>2, GivenUp
  <2>5. CASE FetchFails /\ Conclude(Reported(FALSE)) /\ UNCHANGED level
    BY <1>1, <2>1, <2>5, GivenUp
  <2> QED BY <1>10, <2>2, <2>3, <2>4, <2>5 DEF Descend, Anchored
<1> QED
  BY <1>1, <1>5, <1>6, <1>7, <1>8, <1>9, <1>10 DEF NameStep, Resolve, PolicyChecks

\* "Validated" is said exactly of records whose every signature holds up to the root,
\* but for lookups that failed and chains as long as _MAX_ZONES
\* (dnssec.validate_records, dns.check_dane).
THEOREM ValidationSound == Spec => []ValidatedMeansSigned
<1>1. PolicyInv => ValidatedMeansSigned
  BY DEF PolicyInv, ValidatedMeansSigned
<1> QED
  BY <1>1, PolicyInit, PolicyStep, PTL DEF Spec

-----------------------------------------------------------------------------
(* The denial of existence: names.                                          *)

\* What a name is made of.
LEMMA NameShape ==
  ASSUME NEW n \in Names
  PROVE /\ n = <<>> \/ (\E l \in Label : n = <<l>>) \/ (\E l \in Label, m \in {"*", "b"} : n = <<l, m>>)
        /\ n \in Seq(Label)
        /\ Len(n) \in 0..2
        /\ Len(n) = 0 => n = <<>>
        /\ Len(n) = 1 => n[1] \in Label /\ n = <<n[1]>>
        /\ Len(n) = 2 => n[1] \in Label /\ n[2] \in {"*", "b"} /\ n = <<n[1], n[2]>>
<1>1. n = <<>> \/ (\E l \in Label : n = <<l>>) \/ (\E l \in Label, m \in {"*", "b"} : n = <<l, m>>)
  BY DEF Names
<1>2. {"*", "b"} \subseteq Label
  BY DEF Label
<1>3. CASE n = <<>>
  BY <1>3
<1>4. CASE \E l \in Label : n = <<l>>
  BY <1>4
<1>5. CASE \E l \in Label, m \in {"*", "b"} : n = <<l, m>>
  BY <1>2, <1>5
<1> QED
  BY <1>1, <1>3, <1>4, <1>5

\* The names there are.
LEMMA NamesThere ==
  /\ <<>> \in Names
  /\ \A l \in Label : <<l>> \in Names
  /\ \A l \in Label, m \in {"*", "b"} : <<l, m>> \in Names
  BY DEF Names

\* The labels a name begins with.
LEMMA Beginnings ==
  ASSUME NEW n \in Names
  PROVE /\ SubSeq(n, 1, 0) = <<>>
        /\ Len(n) >= 1 => SubSeq(n, 1, 1) = <<n[1]>>
        /\ Len(n) = 2 => SubSeq(n, 1, 2) = n
<1>1. n \in Seq(Label) /\ Len(n) \in 0..2
  BY NameShape
<1>2. SubSeq(n, 1, 0) = <<>>
  BY SubSeqEmpty
<1>3. ASSUME Len(n) >= 1 PROVE SubSeq(n, 1, 1) = <<n[1]>>
  <2>1. n[1] \in Label
    BY <1>1, <1>3, NameShape
  <2>2. \A i \in 1..1 : n[i] \in Label
    BY <2>1
  <2>3. /\ SubSeq(n, 1, 1) \in Seq(Label) /\ Len(SubSeq(n, 1, 1)) = 1
        /\ SubSeq(n, 1, 1)[1] = n[1]
    <3>1. /\ SubSeq(n, 1, 1) \in Seq(Label)
          /\ Len(SubSeq(n, 1, 1)) = IF 1 <= 1 THEN 1 - 1 + 1 ELSE 0
          /\ \A i \in 1..(1 - 1 + 1) : SubSeq(n, 1, 1)[i] = n[1 + i - 1]
      BY <2>2, SubSeqProperties
    <3> QED BY <3>1
  <2> DEFINE l == n[1]
             s == SubSeq(n, 1, 1)
  <2> HIDE DEF l, s
  <2>4. <<l>> \in Seq(Label) /\ Len(<<l>>) = 1 /\ <<l>>[1] = l
    BY <2>1 DEF l
  <2>5. s \in Seq(Label) /\ Len(s) = 1 /\ s[1] = l
    BY <2>3 DEF l, s
  <2>6. \A i \in 1..Len(s) : s[i] = <<l>>[i]
    BY <2>4, <2>5
  <2>7. s = <<l>>
    <3> DEFINE v == <<l>>
    <3>1. v \in Seq(Label) /\ Len(v) = 1 /\ \A i \in 1..Len(s) : s[i] = v[i]
      BY <2>4, <2>6
    <3> HIDE DEF v
    <3>2. s = v
      BY <2>5, <3>1, SeqEqual
    <3> QED BY <3>2 DEF v
  <2> QED BY <2>7 DEF l, s
<1>4. ASSUME Len(n) = 2 PROVE SubSeq(n, 1, 2) = n
  BY <1>1, <1>4, SubSeqFull
<1> QED
  BY <1>2, <1>3, <1>4

\* A name is above those that have its labels and more.
LEMMA AboveIs ==
  ASSUME NEW n \in Names, NEW m \in Names
  PROVE Above(n, m) <=> \/ Len(n) = 0 /\ Len(m) > 0
                        \/ Len(n) = 1 /\ Len(m) = 2 /\ m[1] = n[1]
<1>1. n \in Seq(Label) /\ Len(n) \in 0..2 /\ m \in Seq(Label) /\ Len(m) \in 0..2
  BY NameShape
<1>2. CASE Len(n) = 0
  <2>1. n = <<>>
    BY <1>2, NameShape
  <2>2. SubSeq(m, 1, 0) = <<>>
    BY Beginnings
  <2> QED BY <1>1, <1>2, <2>1, <2>2 DEF Above
<1>3. CASE Len(n) = 1
  <2>1. n = <<n[1]>>
    BY <1>3, NameShape
  <2>2. CASE Len(m) = 2
    <3>1. SubSeq(m, 1, 1) = <<m[1]>>
      BY <2>2, Beginnings
    <3>2. <<m[1]>> = n <=> m[1] = n[1]
      <4> DEFINE k == m[1]
                 l == n[1]
      <4>1. n = <<l>>
        BY <2>1
      <4> HIDE DEF k, l
      <4>2. <<k>> = <<l>> <=> k = l
        OBVIOUS
      <4> QED BY <4>1, <4>2 DEF k, l
    <3> QED BY <1>3, <2>2, <3>1, <3>2 DEF Above
  <2>3. CASE Len(m) # 2
    <3>1. Len(m) \in 0..2
      BY <1>1
    <3>2. ~(Len(n) < Len(m)) /\ Len(n) # 0
      <4> DEFINE a == Len(n)
                 b == Len(m)
      <4> HIDE DEF a, b
      <4> QED BY <1>3, <2>3, <3>1 DEF a, b
    <3> QED BY <2>3, <3>2 DEF Above
  <2> QED BY <2>2, <2>3
<1>4. CASE Len(n) = 2
  <2>1. Len(m) \in 0..2
    BY <1>1
  <2>2. ~(Len(n) < Len(m)) /\ Len(n) # 0 /\ Len(n) # 1
    <3> DEFINE a == Len(n)
               b == Len(m)
    <3>1. a = 2 /\ b \in 0..2
      BY <1>4, <2>1
    <3> HIDE DEF a, b
    <3>2. ~(a < b) /\ a # 0 /\ a # 1
      BY <3>1
    <3> QED BY <3>2 DEF a, b
  <2> QED BY <2>2 DEF Above
<1> QED
  BY <1>1, <1>2, <1>3, <1>4

\* It is shorter than they are.
LEMMA AboveShort ==
  ASSUME NEW n \in Names, NEW m \in Names, Above(n, m)
  PROVE Len(n) \in 0..1 /\ Len(n) <= 1
<1>1. Len(n) = 0 \/ Len(n) = 1
  BY AboveIs
<1> DEFINE a == Len(n)
<1>2. a = 0 \/ a = 1
  BY <1>1
<1> HIDE DEF a
<1>3. a \in 0..1 /\ a <= 1
  BY <1>2
<1> QED
  BY <1>3 DEF a

\* The place of a name in the order of names.
LEMMA KeyIs ==
  ASSUME NEW n \in Names
  PROVE /\ Len(n) = 0 => Key(n) = 0
        /\ Len(n) = 1 => Key(n) = 4 * Rank(n[1])
        /\ Len(n) = 2 => Key(n) = 4 * Rank(n[1]) + Rank(n[2])
        /\ Len(n) >= 1 => Rank(n[1]) \in 1..3
        /\ Len(n) = 2 => Rank(n[2]) \in {1, 3}
        /\ Key(n) \in 0..15
<1>1. Len(n) \in 0..2
  BY NameShape
<1>2. \A l \in Label : Rank(l) \in 1..3
  BY DEF Label, Rank
<1>3. \A l \in {"*", "b"} : Rank(l) \in {1, 3}
  BY DEF Rank
<1>4. Len(n) >= 1 => n[1] \in Label
  BY <1>1, NameShape
<1>5. Len(n) = 2 => n[2] \in {"*", "b"}
  BY NameShape
<1>6. /\ Len(n) = 0 => Key(n) = 0
      /\ Len(n) = 1 => Key(n) = 4 * Rank(n[1])
      /\ Len(n) = 2 => Key(n) = 4 * Rank(n[1]) + Rank(n[2])
  BY DEF Key
<1>7. Len(n) >= 1 => Rank(n[1]) \in 1..3
  BY <1>2, <1>4
<1>8. Len(n) = 2 => Rank(n[2]) \in {1, 3}
  BY <1>3, <1>5
<1>9. Key(n) \in 0..15
  BY <1>1, <1>6, <1>7, <1>8
<1> QED
  BY <1>6, <1>7, <1>8, <1>9

\* Different names have different places in that order.
LEMMA KeyInjective ==
  ASSUME NEW n \in Names, NEW m \in Names, Key(n) = Key(m)
  PROVE n = m
<1>1. \A l, k \in Label : Rank(l) = Rank(k) => l = k
  BY DEF Label, Rank
<1>2. {"*", "b"} \subseteq Label
  BY DEF Label
<1>3. Len(n) \in 0..2 /\ Len(m) \in 0..2
  BY NameShape
<1>4. Len(n) = Len(m) /\ (Len(n) >= 1 => Rank(n[1]) = Rank(m[1])) /\ (Len(n) = 2 => Rank(n[2]) = Rank(m[2]))
  <2> DEFINE r == Rank(n[1])
             s == Rank(m[1])
             t == Rank(n[2])
             u == Rank(m[2])
             a == Len(n)
             b == Len(m)
  <2>1. /\ a = 0 => Key(n) = 0
        /\ a = 1 => Key(n) = 4 * r
        /\ a = 2 => Key(n) = 4 * r + t
        /\ a >= 1 => r \in 1..3
        /\ a = 2 => t \in {1, 3}
    BY KeyIs
  <2>2. /\ b = 0 => Key(m) = 0
        /\ b = 1 => Key(m) = 4 * s
        /\ b = 2 => Key(m) = 4 * s + u
        /\ b >= 1 => s \in 1..3
        /\ b = 2 => u \in {1, 3}
    BY KeyIs
  <2>3. a \in 0..2 /\ b \in 0..2
    BY <1>3
  <2>4. a = b /\ (a >= 1 => r = s) /\ (a = 2 => t = u)
    <3> HIDE DEF r, s, t, u, a, b
    <3> QED BY <2>1, <2>2, <2>3
  <2> QED BY <2>4
<1>5. Len(n) >= 1 => n[1] \in Label /\ m[1] \in Label
  BY <1>3, <1>4, NameShape
<1>6. Len(n) = 2 => n[2] \in Label /\ m[2] \in Label
  BY <1>2, <1>4, NameShape
<1>7. CASE Len(n) = 0
  <2>1. n = <<>>
    BY <1>7, NameShape
  <2>2. Len(m) = 0
    BY <1>4, <1>7
  <2>3. m = <<>>
    BY <2>2, NameShape
  <2> QED BY <2>1, <2>3
<1>8. CASE Len(n) = 1
  <2>1. n[1] = m[1]
    BY <1>1, <1>4, <1>5, <1>8
  <2> QED BY <1>4, <1>8, <2>1, NameShape
<1>9. CASE Len(n) = 2
  <2>1. n[1] = m[1] /\ n[2] = m[2]
    BY <1>1, <1>4, <1>5, <1>6, <1>9
  <2>2. n = <<n[1], n[2]>> /\ m = <<m[1], m[2]>>
    BY <1>4, <1>9, NameShape
  <2> QED BY <2>1, <2>2
<1> QED
  BY <1>3, <1>7, <1>8, <1>9

\* There are no more than ten names.
LEMMA NamesFew == IsFiniteSet(Names) /\ Cardinality(Names) \in 0..10
<1> DEFINE g(n) == IF Len(n) = 0 THEN 0
                   ELSE 3 * Rank(n[1]) - 2 + IF Len(n) = 2 THEN (IF Rank(n[2]) = 1 THEN 1 ELSE 2) ELSE 0
           f == [n \in Names |-> g(n)]
<1>1. ASSUME NEW n \in Names PROVE g(n) \in 0..9
  <2>1. Len(n) \in 0..2 /\ (Len(n) >= 1 => Rank(n[1]) \in 1..3)
    BY NameShape, KeyIs
  <2> DEFINE r == Rank(n[1])
  <2> HIDE DEF r
  <2> QED BY <2>1 DEF r
<1>2. ASSUME NEW n \in Names, NEW m \in Names, g(n) = g(m) PROVE n = m
  <2> DEFINE r == Rank(n[1])
             s == Rank(m[1])
             t == Rank(n[2])
             u == Rank(m[2])
             a == Len(n)
             b == Len(m)
  <2>1. /\ a = 0 => Key(n) = 0
        /\ a = 1 => Key(n) = 4 * r
        /\ a = 2 => Key(n) = 4 * r + t
        /\ a >= 1 => r \in 1..3
        /\ a = 2 => t \in {1, 3}
    BY KeyIs
  <2>2. /\ b = 0 => Key(m) = 0
        /\ b = 1 => Key(m) = 4 * s
        /\ b = 2 => Key(m) = 4 * s + u
        /\ b >= 1 => s \in 1..3
        /\ b = 2 => u \in {1, 3}
    BY KeyIs
  <2>3. (IF a = 0 THEN 0 ELSE 3 * r - 2 + IF a = 2 THEN (IF t = 1 THEN 1 ELSE 2) ELSE 0)
      = (IF b = 0 THEN 0 ELSE 3 * s - 2 + IF b = 2 THEN (IF u = 1 THEN 1 ELSE 2) ELSE 0)
    BY <1>2
  <2>4. a \in 0..2 /\ b \in 0..2
    BY NameShape
  <2>5. Key(n) = Key(m)
    <3> HIDE DEF r, s, t, u, a, b
    <3> QED BY <2>1, <2>2, <2>3, <2>4
  <2> QED BY <2>5, KeyInjective
<1>3. f \in [Names -> 0..9]
  <2> HIDE DEF g
  <2> QED BY <1>1
<1>4. f \in Injection(Names, 0..9)
  <2>1. \A n, m \in Names : f[n] = f[m] => n = m
    <3> TAKE n, m \in Names
    <3>1. f[n] = g(n) /\ f[m] = g(m)
      OBVIOUS
    <3> HIDE DEF g, f
    <3> QED BY <1>2, <3>1
  <2> HIDE DEF f
  <2> QED BY <1>3, <2>1 DEF Injection, IsInjective
<1>5. IsFiniteSet(0..9) /\ Cardinality(0..9) = 10
  <2>1. 0 \in Int /\ 9 \in Int /\ ~(0 > 9) /\ 9 - 0 + 1 = 10
    OBVIOUS
  <2>2. IsFiniteSet(0..9) /\ Cardinality(0..9) = IF 0 > 9 THEN 0 ELSE 9 - 0 + 1
    BY <2>1, FS_Interval
  <2> QED BY <2>1, <2>2
<1> QED
  <2> HIDE DEF f
  <2>1. Cardinality(Names) <= Cardinality(0..9) /\ IsFiniteSet(Names)
    BY <1>4, <1>5, FS_Injection
  <2>2. Cardinality(Names) \in Nat
    BY <2>1, FS_CardinalityType
  <2> QED BY <1>5, <2>1, <2>2

\* A hash order gives every name a number below eleven, and no two names the same.
LEMMA IndexIs ==
  /\ \A n \in Names : Index[n] \in 0..10
  /\ \A n, m \in Names : Index[n] = Index[m] => n = m
<1> DEFINE Earlier(n) == {m \in Names : Key(m) < Key(n)}
<1>0. \A n \in Names : Key(n) \in Nat
  BY KeyIs
<1>1. \A n \in Names : Index[n] = Cardinality(Earlier(n))
  BY DEF Index
<1>2. \A n \in Names : IsFiniteSet(Earlier(n)) /\ Cardinality(Earlier(n)) \in 0..10
  <2> TAKE n \in Names
  <2>1. Earlier(n) \in SUBSET Names
    OBVIOUS
  <2> HIDE DEF Earlier
  <2>2. IsFiniteSet(Earlier(n)) /\ Cardinality(Earlier(n)) <= Cardinality(Names)
    BY <2>1, NamesFew, FS_Subset
  <2>3. Cardinality(Earlier(n)) \in Nat
    BY <2>2, FS_CardinalityType
  <2> QED BY <2>2, <2>3, NamesFew
<1>3. ASSUME NEW n \in Names, NEW m \in Names, Key(n) < Key(m)
      PROVE Index[n] < Index[m]
  <2>1. Earlier(n) \cup {n} \in SUBSET Earlier(m) /\ n \notin Earlier(n)
    <3>1. n \in Earlier(m) /\ n \notin Earlier(n)
      BY <1>0, <1>3
    <3>2. \A k \in Earlier(n) : k \in Earlier(m)
      BY <1>0, <1>3
    <3> HIDE DEF Earlier
    <3> QED BY <3>1, <3>2
  <2> HIDE DEF Earlier
  <2>2. Cardinality(Earlier(n) \cup {n}) = Cardinality(Earlier(n)) + 1
    BY <1>2, <2>1, FS_AddElement
  <2>3. Cardinality(Earlier(n) \cup {n}) <= Cardinality(Earlier(m))
    BY <1>2, <2>1, FS_Subset
  <2> QED BY <1>1, <1>2, <2>2, <2>3
<1>4. ASSUME NEW n \in Names, NEW m \in Names, Index[n] = Index[m] PROVE n = m
  <2>1. Index[n] \in Nat /\ Index[m] \in Nat
    <3> HIDE DEF Earlier
    <3> QED BY <1>1, <1>2
  <2>2. ~(Index[n] < Index[m]) /\ ~(Index[m] < Index[n])
    BY <1>4, <2>1
  <2>3. ~(Key(n) < Key(m)) /\ ~(Key(m) < Key(n))
    BY <1>3, <2>2
  <2>4. Key(n) = Key(m)
    BY <1>0, <2>3
  <2> QED BY <2>4, KeyInjective
<1> QED
  <2> HIDE DEF Earlier
  <2> QED BY <1>1, <1>2, <1>4

\* Neither does the hash.
LEMMA HashInjective ==
  ASSUME NEW s \in (1..10) \X (0..10), NEW n \in Names, NEW m \in Names
  PROVE /\ Hash(s, n) \in 0..10
        /\ Hash(s, n) = Hash(s, m) => n = m
<1> DEFINE f == s[1]
           a == s[2]
           i == Index[n]
           j == Index[m]
<1>1. f \in 1..10 /\ a \in 0..10
  OBVIOUS
<1>2. i \in 0..10 /\ j \in 0..10 /\ (i = j => n = m)
  BY IndexIs
<1>3. Hash(s, n) = (f * i + a) % 11 /\ Hash(s, m) = (f * j + a) % 11
  BY DEF Hash
<1> HIDE DEF f, a, i, j
<1>4. f * i + a \in Nat /\ f * j + a \in Nat
  BY <1>1, <1>2
<1>5. (f * i + a) % 11 \in 0..10
  BY <1>4
<1>6. ASSUME (f * i + a) % 11 = (f * j + a) % 11 PROVE i = j
  <2>1. f \in {1, 2, 3, 4, 5, 6, 7, 8, 9, 10}
    BY <1>1
  <2>2. CASE f = 1
    BY <1>1, <1>2, <1>6, <2>2
  <2>3. CASE f = 2
    BY <1>1, <1>2, <1>6, <2>3
  <2>4. CASE f = 3
    BY <1>1, <1>2, <1>6, <2>4
  <2>5. CASE f = 4
    BY <1>1, <1>2, <1>6, <2>5
  <2>6. CASE f = 5
    BY <1>1, <1>2, <1>6, <2>6
  <2>7. CASE f = 6
    BY <1>1, <1>2, <1>6, <2>7
  <2>8. CASE f = 7
    BY <1>1, <1>2, <1>6, <2>8
  <2>9. CASE f = 8
    BY <1>1, <1>2, <1>6, <2>9
  <2>10. CASE f = 9
    BY <1>1, <1>2, <1>6, <2>10
  <2>11. CASE f = 10
    BY <1>1, <1>2, <1>6, <2>11
  <2> QED BY <2>1, <2>2, <2>3, <2>4, <2>5, <2>6, <2>7, <2>8, <2>9, <2>10, <2>11
<1> QED
  BY <1>2, <1>3, <1>5, <1>6

-----------------------------------------------------------------------------
(* The denial of existence: the ring of denial records.                     *)

\* What a zone is.
LEMMA ZoneIs ==
  ASSUME NEW z \in Zones
  PROVE /\ DOMAIN z.owners \subseteq Names \ {<<>>}
        /\ \A n \in DOMAIN z.owners : z.owners[n] \in Kinds
        /\ z.hashed \in BOOLEAN /\ z.optout \in BOOLEAN
        /\ z.salt \in (1..10) \X (0..10)
        /\ ~z.hashed => ~z.optout
<1>1. PICK S \in SUBSET (Names \ {<<>>}) : z.owners \in [S -> Kinds]
  BY DEF Zones
<1>2. z.hashed \in BOOLEAN /\ z.optout \in BOOLEAN /\ z.salt \in Salts /\ (~z.hashed => ~z.optout)
  BY DEF Zones
<1>3. z.salt \in (1..10) \X (0..10)
  BY <1>2, DenialAssumption
<1> QED
  BY <1>1, <1>2, <1>3

\* The owners of the denial records: names of the zone, the apex among them.
LEMMA OwnersAre ==
  ASSUME NEW z \in Zones
  PROVE /\ ZoneNames(z) \subseteq Names /\ <<>> \in ZoneNames(z)
        /\ DenialOwners(z) \subseteq Names /\ <<>> \in DenialOwners(z)
        /\ ~z.hashed => DenialOwners(z) = ZoneNames(z)
        /\ \A n \in DenialOwners(z) : Exists(z, n)
        /\ \A n \in Names : /\ z.hashed /\ Exists(z, n) /\ n \notin DenialOwners(z)
                              => z.optout /\ n \in DOMAIN z.owners /\ z.owners[n] = "delegated"
<1>1. DOMAIN z.owners \subseteq Names \ {<<>>}
  BY ZoneIs
<1>2. <<>> \in Names
  BY NamesThere
<1> DEFINE Z == ZoneNames(z)
<1>3. Z \subseteq Names /\ <<>> \in Z
  BY <1>1, <1>2 DEF ZoneNames
<1>4. CASE ~z.hashed
  <2>1. DenialOwners(z) = Z
    BY <1>4 DEF DenialOwners
  <2> HIDE DEF Z
  <2>2. \A n \in Z : \E m \in Z : m = n \/ Above(n, m)
    OBVIOUS
  <2>3. \A n \in DenialOwners(z) : Exists(z, n)
    BY <2>1, <2>2 DEF Exists, Z
  <2> QED BY <1>3, <1>4, <2>1, <2>3 DEF Z
<1>5. CASE z.hashed
  <2> DEFINE Out(n) == z.optout /\ n \in DOMAIN z.owners /\ z.owners[n] = "delegated"
             E == Z \cup {m \in Names : \E k \in Z : Above(m, k)}
  <2>1. DenialOwners(z) = {n \in E : ~Out(n)}
    BY <1>5 DEF DenialOwners
  <2>2. ~Out(<<>>)
    BY <1>1
  <2>3. \A n \in Names : n \in E <=> \E m \in Z : m = n \/ Above(n, m)
    <3> HIDE DEF Z
    <3> QED BY <1>3
  <2>4. \A n \in Names : n \in E <=> Exists(z, n)
    BY <2>3 DEF Exists
  <2>5. E \subseteq Names /\ <<>> \in E
    <3> HIDE DEF Z
    <3> QED BY <1>3
  <2> HIDE DEF E, Out, Z
  <2>6. DenialOwners(z) \subseteq Names /\ <<>> \in DenialOwners(z)
    BY <2>1, <2>2, <2>5
  <2>7. \A n \in DenialOwners(z) : Exists(z, n)
    BY <2>1, <2>4, <2>5
  <2>8. \A n \in Names : Exists(z, n) /\ n \notin DenialOwners(z) => Out(n)
    BY <2>1, <2>4
  <2> QED BY <1>3, <1>5, <2>6, <2>7, <2>8 DEF Z, Out
<1> QED
  BY <1>4, <1>5, ZoneIs

\* Every name has a place of its own in the ring.
LEMMA PlaceIs ==
  ASSUME NEW z \in Zones
  PROVE /\ \A n \in Names : Place(z, n) \in 0..15
        /\ \A n, m \in Names : Place(z, n) = Place(z, m) => n = m
        /\ ~z.hashed => \A n \in Names : Place(z, n) = Key(n)
<1>1. CASE z.hashed
  <2>1. z.salt \in (1..10) \X (0..10)
    BY ZoneIs
  <2>2. \A n \in Names : Place(z, n) = Hash(z.salt, n)
    BY <1>1 DEF Place
  <2>3. \A n \in Names : Hash(z.salt, n) \in 0..10
    BY <2>1, HashInjective
  <2>4. \A n, m \in Names : Hash(z.salt, n) = Hash(z.salt, m) => n = m
    BY <2>1, HashInjective
  <2> QED BY <1>1, <2>2, <2>3, <2>4
<1>2. CASE ~z.hashed
  <2>1. \A n \in Names : Place(z, n) = Key(n)
    BY <1>2 DEF Place
  <2>2. \A n \in Names : Key(n) \in 0..15
    BY KeyIs
  <2> QED BY <1>2, <2>1, <2>2, KeyInjective
<1> QED
  BY <1>1, <1>2

\* Among some names there is a first and a last one in the ring.
LEMMA RingEnds ==
  ASSUME NEW z \in Zones, NEW S \in SUBSET Names, S # {}
  PROVE /\ \E n \in S : \A m \in S : Place(z, n) <= Place(z, m)
        /\ \E n \in S : \A m \in S : Place(z, m) <= Place(z, n)
<1> DEFINE p(n) == Place(z, n)
           T == {p(n) : n \in S}
           U == {15 - p(n) : n \in S}
<1>1. \A n \in S : p(n) \in 0..15
  BY PlaceIs
<1> HIDE DEF p
<1>2. T \in SUBSET Nat /\ T # {} /\ U \in SUBSET Nat /\ U # {}
  BY <1>1
<1>3. \E n \in S : \A m \in S : p(n) <= p(m)
  <2>1. PICK x \in T : \A y \in T : x <= y
    <3> HIDE DEF T
    <3> QED BY <1>2, NatMin
  <2>2. PICK n \in S : x = p(n)
    BY <2>1
  <2>3. \A m \in S : p(m) \in T
    OBVIOUS
  <2> QED BY <2>1, <2>2, <2>3
<1>4. \E n \in S : \A m \in S : p(m) <= p(n)
  <2>1. PICK x \in U : \A y \in U : x <= y
    <3> HIDE DEF U
    <3> QED BY <1>2, NatMin
  <2>2. PICK n \in S : x = 15 - p(n)
    BY <2>1
  <2>3. \A m \in S : 15 - p(m) \in U
    OBVIOUS
  <2>4. \A m \in S : 15 - p(n) <= 15 - p(m)
    BY <2>1, <2>2, <2>3
  <2>5. \A m \in S : p(m) <= p(n)
    BY <1>1, <2>4
  <2> QED BY <2>5
<1> QED
  BY <1>3, <1>4 DEF p

\* The next owner is the first one after an owner, or the first of all after the last.
LEMMA NextIs ==
  ASSUME NEW z \in Zones, NEW o \in DenialOwners(z)
  PROVE /\ NextOwner(z, o) \in DenialOwners(z)
        /\ \/ /\ Place(z, NextOwner(z, o)) > Place(z, o)
              /\ \A k \in DenialOwners(z) : Place(z, k) > Place(z, o) => Place(z, NextOwner(z, o)) <= Place(z, k)
           \/ /\ \A k \in DenialOwners(z) : Place(z, k) <= Place(z, o)
              /\ \A k \in DenialOwners(z) : Place(z, NextOwner(z, o)) <= Place(z, k)
<1> DEFINE D == DenialOwners(z)
           p(n) == Place(z, n)
           others == D \ {o}
           later == {m \in others : p(m) > p(o)}
           Least(set) == CHOOSE m \in set : \A k \in set : p(m) <= p(k)
           x == NextOwner(z, o)
<1>1. x = IF others = {} THEN o ELSE IF later # {} THEN Least(later) ELSE Least(others)
  BY DEF NextOwner
<1>2. D \subseteq Names /\ o \in D
  BY OwnersAre
<1>3. \A n \in D : p(n) \in Nat
  BY <1>2, PlaceIs
<1>4. ASSUME NEW S \in SUBSET Names, S # {}
      PROVE Least(S) \in S /\ \A k \in S : p(Least(S)) <= p(k)
  <2>1. \E n \in S : \A m \in S : p(n) <= p(m)
    BY <1>4, RingEnds
  <2> HIDE DEF p
  <2> QED BY <2>1
<1> HIDE DEF D, p, x
<1>5. CASE others = {}
  <2>1. x = o /\ \A k \in D : k = o
    BY <1>1, <1>5
  <2> QED BY <1>2, <1>3, <2>1 DEF D, p, x
<1>6. CASE others # {} /\ later # {}
  <2>1. x = Least(later)
    BY <1>1, <1>6
  <2>2. later \in SUBSET Names
    BY <1>2
  <2>3. x \in later /\ \A k \in later : p(x) <= p(k)
    <3> HIDE DEF later, Least
    <3> QED BY <1>4, <1>6, <2>1, <2>2
  <2>4. x \in D /\ p(x) > p(o)
    BY <2>3
  <2>5. \A k \in D : p(k) > p(o) => k \in later
    BY <1>2, <1>3
  <2> QED BY <2>3, <2>4, <2>5 DEF D, p, x
<1>7. CASE others # {} /\ later = {}
  <2>1. x = Least(others)
    BY <1>1, <1>7
  <2>2. others \in SUBSET Names
    BY <1>2
  <2>3. x \in others /\ \A k \in others : p(x) <= p(k)
    <3> HIDE DEF others, Least
    <3> QED BY <1>4, <1>7, <2>1, <2>2
  <2>4. \A k \in D : p(k) <= p(o)
    <3> TAKE k \in D
    <3>1. CASE k = o
      BY <1>3, <3>1
    <3>2. CASE k # o
      BY <1>2, <1>3, <1>7, <3>2
    <3> QED BY <3>1, <3>2
  <2>5. x \in D
    BY <2>3
  <2>6. \A k \in D : p(x) <= p(k)
    <3> TAKE k \in D
    <3>1. CASE k = o
      BY <2>4, <2>5, <3>1
    <3>2. CASE k # o
      BY <2>3, <3>2
    <3> QED BY <3>1, <3>2
  <2> QED BY <2>4, <2>5, <2>6 DEF D, p, x
<1> QED
  BY <1>5, <1>6, <1>7

\* A name that a record covers has no record of its own.
LEMMA CoveredIsNoOwner ==
  ASSUME NEW z \in Zones, NEW o \in DenialOwners(z), NEW t \in Names, Covers(z, o, t)
  PROVE t \notin DenialOwners(z)
<1> DEFINE D == DenialOwners(z)
           p(n) == Place(z, n)
           x == NextOwner(z, o)
<1> SUFFICES ASSUME t \in D PROVE FALSE
  OBVIOUS
<1>1. x \in D /\ \/ p(x) > p(o) /\ \A k \in D : p(k) > p(o) => p(x) <= p(k)
                 \/ (\A k \in D : p(k) <= p(o)) /\ \A k \in D : p(x) <= p(k)
  BY NextIs
<1>2. p(o) \in Nat /\ p(t) \in Nat /\ p(x) \in Nat
  BY <1>1, OwnersAre, PlaceIs
<1>3. IF p(o) < p(x) THEN p(o) < p(t) /\ p(t) < p(x) ELSE p(t) > p(o) \/ p(t) < p(x)
  BY DEF Covers
<1> HIDE DEF D, p, x
<1>4. CASE p(x) > p(o) /\ \A k \in D : p(k) > p(o) => p(x) <= p(k)
  BY <1>2, <1>3, <1>4
<1>5. CASE (\A k \in D : p(k) <= p(o)) /\ \A k \in D : p(x) <= p(k)
  <2>1. o \in D
    BY DEF D
  <2>2. p(x) <= p(o) /\ p(x) <= p(t) /\ p(t) <= p(o)
    BY <1>5, <2>1
  <2> QED BY <1>2, <1>3, <2>2
<1> QED
  BY <1>1, <1>4, <1>5

\* A name that has no record is covered by one.
LEMMA NoOwnerIsCovered ==
  ASSUME NEW z \in Zones, NEW t \in Names, t \notin DenialOwners(z)
  PROVE \E o \in DenialOwners(z) : Covers(z, o, t)
<1> DEFINE D == DenialOwners(z)
           p(n) == Place(z, n)
           before == {n \in D : p(n) < p(t)}
           After(o, x) == \/ p(x) > p(o) /\ \A k \in D : p(k) > p(o) => p(x) <= p(k)
                          \/ (\A k \in D : p(k) <= p(o)) /\ \A k \in D : p(x) <= p(k)
           Between(o, x) == IF p(o) < p(x) THEN p(o) < p(t) /\ p(t) < p(x) ELSE p(t) > p(o) \/ p(t) < p(x)
<1>1. D \subseteq Names /\ D # {} /\ t \notin D
  BY OwnersAre
<1>2. \A n \in D : p(n) \in Nat /\ p(t) \in Nat /\ p(n) # p(t)
  BY <1>1, PlaceIs
<1>3. \A o \in D : NextOwner(z, o) \in D /\ After(o, NextOwner(z, o))
  BY NextIs
<1>4. \A o \in D : Covers(z, o, t) <=> Between(o, NextOwner(z, o))
  BY DEF Covers
<1>5. PICK o \in D : /\ before # {} => o \in before /\ \A k \in before : p(k) <= p(o)
                     /\ before = {} => \A k \in D : p(k) <= p(o)
  <2>1. CASE before # {}
    <3>1. before \in SUBSET Names
      BY <1>1
    <3>2. \E n \in before : \A m \in before : p(m) <= p(n)
      <4> HIDE DEF before
      <4> QED BY <2>1, <3>1, RingEnds
    <3> QED BY <2>1, <3>2
  <2>2. CASE before = {}
    <3>1. \E n \in D : \A m \in D : p(m) <= p(n)
      BY <1>1, RingEnds
    <3> QED BY <2>2, <3>1
  <2> QED BY <2>1, <2>2
<1> DEFINE x == NextOwner(z, o)
<1>6. x \in D /\ After(o, x)
  BY <1>3
<1> HIDE DEF D, p, x
<1>7. p(o) \in Nat /\ p(t) \in Nat /\ p(x) \in Nat /\ p(x) # p(t) /\ p(o) # p(t)
  BY <1>2, <1>6
<1>8. CASE before # {}
  <2>1. p(o) < p(t) /\ \A k \in D : p(k) < p(t) => p(k) <= p(o)
    BY <1>5, <1>8
  <2>2. CASE p(x) > p(o) /\ \A k \in D : p(k) > p(o) => p(x) <= p(k)
    <3>1. ~(p(x) < p(t))
      BY <1>6, <1>7, <2>1, <2>2
    <3>2. Between(o, x)
      BY <1>7, <2>1, <2>2, <3>1
    <3> QED BY <1>4, <3>2 DEF x, D
  <2>3. CASE (\A k \in D : p(k) <= p(o)) /\ \A k \in D : p(x) <= p(k)
    <3>1. p(x) <= p(o)
      BY <2>3
    <3>2. Between(o, x)
      BY <1>7, <2>1, <3>1
    <3> QED BY <1>4, <3>2 DEF x, D
  <2> QED BY <1>6, <2>2, <2>3
<1>9. CASE before = {}
  <2>1. p(x) <= p(o)
    BY <1>5, <1>6, <1>9
  <2>2. ~(p(x) < p(t))
    BY <1>6, <1>9
  <2>3. Between(o, x)
    BY <1>7, <2>1, <2>2
  <2> QED BY <1>4, <2>3 DEF x, D
<1> QED
  BY <1>8, <1>9

-----------------------------------------------------------------------------
(* The denial of existence: the closest encloser.                           *)

\* The longest name above q that exists.
Encloser(z, q, c) ==
    /\ c \in Names /\ Above(c, q) /\ Exists(z, c)
    /\ \A m \in Names : Above(m, q) /\ Exists(z, m) => Len(m) <= Len(c)

\* Names above the same name are known by their length.
LEMMA AboveUnique ==
  ASSUME NEW q \in Names, NEW n \in Names, NEW m \in Names, Above(n, q), Above(m, q), Len(n) = Len(m)
  PROVE n = m
<1>1. Len(n) \in 0..2
  BY NameShape
<1>2. \/ Len(n) = 0 /\ Len(q) > 0
      \/ Len(n) = 1 /\ Len(q) = 2 /\ q[1] = n[1]
  BY AboveIs
<1>3. \/ Len(m) = 0 /\ Len(q) > 0
      \/ Len(m) = 1 /\ Len(q) = 2 /\ q[1] = m[1]
  BY AboveIs
<1>4. CASE Len(n) = 0
  <2>1. n = <<>>
    BY <1>4, NameShape
  <2>2. Len(m) = 0
    BY <1>4
  <2>3. m = <<>>
    BY <2>2, NameShape
  <2> QED BY <2>1, <2>3
<1>5. CASE Len(n) = 1
  <2>1. n[1] = m[1]
    BY <1>2, <1>3, <1>5
  <2>2. n = <<n[1]>>
    BY <1>5, NameShape
  <2>3. Len(m) = 1
    BY <1>5
  <2>4. m = <<m[1]>>
    BY <2>3, NameShape
  <2> QED BY <2>1, <2>2, <2>4
<1> QED
  BY <1>2, <1>4, <1>5

\* What is above a name that exists exists.
LEMMA ExistsAbove ==
  ASSUME NEW z \in Zones, NEW n \in Names, Exists(z, n), NEW x \in Names, x = n \/ Above(x, n)
  PROVE Exists(z, x)
<1>1. PICK m \in ZoneNames(z) : m = n \/ Above(n, m)
  BY DEF Exists
<1>2. m \in Names
  BY OwnersAre
<1>3. m = x \/ Above(x, m)
  <2>1. CASE x = n
    BY <1>1, <2>1
  <2>2. CASE m = n /\ Above(x, n)
    BY <2>2
  <2>3. CASE Above(n, m) /\ Above(x, n)
    <3>1. Len(x) = 0 /\ Len(m) > 0
      <4>1. \/ Len(x) = 0 /\ Len(n) > 0
            \/ Len(x) = 1 /\ Len(n) = 2 /\ n[1] = x[1]
        BY <2>3, AboveIs
      <4>2. \/ Len(n) = 0 /\ Len(m) > 0
            \/ Len(n) = 1 /\ Len(m) = 2 /\ m[1] = n[1]
        BY <1>2, <2>3, AboveIs
      <4> DEFINE a == Len(x)
                 b == Len(n)
                 c == Len(m)
      <4>3. /\ (a = 0 /\ b > 0) \/ (a = 1 /\ b = 2)
            /\ (b = 0 /\ c > 0) \/ (b = 1 /\ c = 2)
        BY <4>1, <4>2
      <4> HIDE DEF a, b, c
      <4>4. a = 0 /\ c > 0
        BY <4>3
      <4> QED BY <4>4 DEF a, c
    <3> QED BY <1>2, <3>1, AboveIs
  <2> QED BY <1>1, <2>1, <2>2, <2>3
<1> QED
  BY <1>1, <1>3 DEF Exists

\* The apex exists, and a name that is not the apex is below it.
LEMMA ApexAbove ==
  ASSUME NEW z \in Zones, NEW q \in Names, Len(q) >= 1
  PROVE <<>> \in Names /\ Exists(z, <<>>) /\ Above(<<>>, q)
<1>1. <<>> \in Names /\ Exists(z, <<>>)
  BY NamesThere, OwnersAre
<1>2. Len(<<>>) = 0 /\ Len(q) > 0
  <2>1. Len(q) \in 0..2
    BY NameShape
  <2> QED BY <2>1
<1> QED
  BY <1>1, <1>2, AboveIs

\* A closest encloser is what Closest chooses.
LEMMA EncloserIsClosest ==
  ASSUME NEW z \in Zones, NEW q \in Names, NEW c, Encloser(z, q, c)
  PROVE Closest(z, q) = c
<1> DEFINE P(n) == /\ Above(n, q) /\ Exists(z, n)
                   /\ \A m \in Names : Above(m, q) /\ Exists(z, m) => Len(m) <= Len(n)
           d == CHOOSE n \in Names : P(n)
<1>1. c \in Names /\ P(c)
  BY DEF Encloser
<1>2. d \in Names /\ P(d)
  <2> HIDE DEF P
  <2> QED BY <1>1
<1> HIDE DEF d
<1>3. Len(c) <= Len(d) /\ Len(d) <= Len(c)
  BY <1>1, <1>2
<1>4. Len(c) \in 0..2 /\ Len(d) \in 0..2
  BY <1>1, <1>2, NameShape
<1>5. Len(c) = Len(d)
  BY <1>3, <1>4
<1>6. Above(c, q) /\ Above(d, q)
  BY <1>1, <1>2
<1>7. c = d
  BY <1>1, <1>2, <1>5, <1>6, AboveUnique
<1> QED
  BY <1>7 DEF Closest, d

\* There is one for every name but the apex.
LEMMA EncloserExists ==
  ASSUME NEW z \in Zones, NEW q \in Names, Len(q) >= 1
  PROVE \E c : Encloser(z, q, c)
<1>1. <<>> \in Names /\ Exists(z, <<>>) /\ Above(<<>>, q)
  BY ApexAbove
<1>2. CASE \E m \in Names : Above(m, q) /\ Exists(z, m) /\ Len(m) = 1
  <2>1. PICK m \in Names : Above(m, q) /\ Exists(z, m) /\ Len(m) = 1
    BY <1>2
  <2>2. \A n \in Names : Above(n, q) => Len(n) <= 1
    BY AboveShort
  <2> QED BY <2>1, <2>2 DEF Encloser
<1>3. CASE ~\E m \in Names : Above(m, q) /\ Exists(z, m) /\ Len(m) = 1
  <2>1. \A n \in Names : Above(n, q) /\ Exists(z, n) => Len(n) = 0
    BY <1>3, AboveIs
  <2>2. Len(<<>>) = 0
    OBVIOUS
  <2>3. \A n \in Names : Above(n, q) /\ Exists(z, n) => Len(n) <= Len(<<>>)
    BY <2>1, <2>2
  <2> QED BY <1>1, <2>3 DEF Encloser
<1> QED
  BY <1>2, <1>3

\* The name one label longer than one above q: q or the only longer name above it.
LEMMA NextCloser ==
  ASSUME NEW q \in Names, NEW c \in Names, Above(c, q)
  PROVE LET x == SubSeq(q, 1, Len(c) + 1)
        IN  /\ x \in Names /\ (x = q \/ Above(x, q)) /\ Len(x) = Len(c) + 1
            /\ \A m \in Names : Above(m, q) /\ ~(Len(m) <= Len(c)) => m = x
<1> DEFINE x == SubSeq(q, 1, Len(c) + 1)
<1>1. Len(q) \in 0..2
  BY NameShape
<1>2. CASE Len(c) = 0 /\ Len(q) > 0
  <2> DEFINE l == q[1]
  <2>1. x = <<l>>
    <3>1. Len(c) + 1 = 1 /\ Len(q) >= 1
      BY <1>1, <1>2
    <3>2. SubSeq(q, 1, 1) = <<l>>
      BY <3>1, Beginnings
    <3> QED BY <3>1, <3>2
  <2>2. l \in Label
    <3>1. Len(q) = 1 \/ Len(q) = 2
      BY <1>1, <1>2
    <3> QED BY <3>1, NameShape
  <2>3. x \in Names
    BY <2>1, <2>2, NamesThere
  <2>4. Len(x) = 1 /\ x[1] = l
    <3> HIDE DEF l, x
    <3> QED BY <2>1
  <2>5. x = q \/ Above(x, q)
    <3>1. CASE Len(q) = 1
      <4>1. q = <<l>>
        BY <3>1, NameShape
      <4> QED BY <2>1, <4>1
    <3>2. CASE Len(q) = 2
      <4>1. Len(x) = 1 /\ Len(q) = 2 /\ q[1] = x[1]
        BY <2>4, <3>2
      <4> HIDE DEF x
      <4> QED BY <2>3, <4>1, AboveIs
    <3> QED BY <1>1, <1>2, <3>1, <3>2
  <2>6. ASSUME NEW m \in Names, Above(m, q), ~(Len(m) <= Len(c)) PROVE m = x
    <3>1. Len(m) = 1 /\ Len(q) = 2 /\ q[1] = m[1]
      <4>1. Len(m) \in 0..2 /\ Len(m) # 0
        BY <1>2, <2>6, NameShape
      <4>2. \/ Len(m) = 0 /\ Len(q) > 0
            \/ Len(m) = 1 /\ Len(q) = 2 /\ q[1] = m[1]
        BY <2>6, AboveIs
      <4> QED BY <4>1, <4>2
    <3>2. m = <<m[1]>>
      BY <3>1, NameShape
    <3>3. m[1] = l
      BY <3>1
    <3> QED BY <2>1, <3>2, <3>3
  <2>7. Len(x) = Len(c) + 1
    BY <1>2, <2>4
  <2> QED BY <2>3, <2>5, <2>6, <2>7
<1>3. CASE Len(c) = 1 /\ Len(q) = 2
  <2>1. x = q
    <3>1. Len(c) + 1 = 2
      BY <1>3
    <3>2. SubSeq(q, 1, 2) = q
      BY <1>3, Beginnings
    <3> QED BY <3>1, <3>2
  <2>2. ASSUME NEW m \in Names, Above(m, q), ~(Len(m) <= Len(c)) PROVE FALSE
    <3>1. Len(m) = 0 \/ Len(m) = 1
      BY <2>2, AboveIs
    <3> QED BY <1>3, <2>2, <3>1
  <2>3. Len(x) = Len(c) + 1
    BY <1>3, <2>1
  <2> QED BY <2>1, <2>2, <2>3
<1>4. \/ Len(c) = 0 /\ Len(q) > 0
      \/ Len(c) = 1 /\ Len(q) = 2
  BY AboveIs
<1> QED
  BY <1>2, <1>3, <1>4

\* One label more.
LEMMA AppendOne ==
  ASSUME NEW S, NEW a \in S, NEW b \in S
  PROVE Append(<<a>>, b) = <<a, b>>
<1> DEFINE s == Append(<<a>>, b)
           t == <<a, b>>
<1>1. <<a>> \in Seq(S) /\ Len(<<a>>) = 1 /\ <<a>>[1] = a
  OBVIOUS
<1>2. s \in Seq(S) /\ Len(s) = 2 /\ s[1] = a /\ s[2] = b
  BY <1>1, AppendProperties
<1>3. t \in Seq(S) /\ Len(t) = 2 /\ t[1] = a /\ t[2] = b
  OBVIOUS
<1> HIDE DEF s, t
<1>4. \A i \in 1..Len(s) : s[i] = t[i]
  BY <1>2, <1>3
<1>5. s = t
  BY <1>2, <1>3, <1>4, SeqEqual
<1> QED
  BY <1>5 DEF s, t

\* The wildcard at a name that may have names below it.
LEMMA WildIs ==
  ASSUME NEW c \in Names, Len(c) \in 0..1
  PROVE Wild(c) \in Names
<1>1. "*" \in Label /\ "*" \in {"*", "b"}
  BY DEF Label
<1>2. CASE Len(c) = 0
  <2>1. c = <<>>
    BY <1>2, NameShape
  <2>2. Append(<<>>, "*") = <<"*">>
    OBVIOUS
  <2>3. Wild(c) = <<"*">>
    BY <2>1, <2>2 DEF Wild
  <2> QED BY <1>1, <2>3, NamesThere
<1>3. CASE Len(c) = 1
  <2> DEFINE l == c[1]
  <2>1. c = <<l>> /\ l \in Label
    BY <1>3, NameShape
  <2> HIDE DEF l
  <2>2. Append(<<l>>, "*") = <<l, "*">>
    BY <1>1, <2>1, AppendOne
  <2>3. Wild(c) = <<l, "*">>
    BY <2>1, <2>2 DEF Wild
  <2> QED BY <1>1, <2>1, <2>3, NamesThere
<1> QED
  BY <1>2, <1>3

\* What two different names have in common: the first label, or nothing.
LEMMA CommonIs ==
  ASSUME NEW n \in Names, NEW m \in Names, n # m
  PROVE Common(n, m) = IF Len(n) >= 1 /\ Len(m) >= 1 /\ m[1] = n[1] THEN <<n[1]>> ELSE <<>>
<1> DEFINE P(i) == i <= Len(n) /\ i <= Len(m) /\ SubSeq(n, 1, i) = SubSeq(m, 1, i)
           k == CHOOSE i \in 0..2 : /\ i <= Len(n) /\ i <= Len(m)
                                    /\ SubSeq(n, 1, i) = SubSeq(m, 1, i)
                                    /\ \A j \in (i + 1)..2 : ~P(j)
<1>1. Len(n) \in 0..2 /\ Len(m) \in 0..2
  BY NameShape
<1>2. P(0)
  <2>1. SubSeq(n, 1, 0) = <<>> /\ SubSeq(m, 1, 0) = <<>>
    BY Beginnings
  <2> QED BY <1>1, <2>1
<1>3. P(1) <=> Len(n) >= 1 /\ Len(m) >= 1 /\ m[1] = n[1]
  <2>1. Len(n) >= 1 => SubSeq(n, 1, 1) = <<n[1]>>
    BY Beginnings
  <2>2. Len(m) >= 1 => SubSeq(m, 1, 1) = <<m[1]>>
    BY Beginnings
  <2> DEFINE a == n[1]
             b == m[1]
             s == SubSeq(n, 1, 1)
             t == SubSeq(m, 1, 1)
  <2>3. <<a>> = <<b>> <=> a = b
    <3> HIDE DEF a, b
    <3> QED OBVIOUS
  <2>4. P(1) <=> Len(n) >= 1 /\ Len(m) >= 1 /\ s = t
    BY <1>1
  <2>5. (Len(n) >= 1 => s = <<a>>) /\ (Len(m) >= 1 => t = <<b>>)
    BY <2>1, <2>2
  <2> HIDE DEF s, t, P, a, b
  <2>6. P(1) <=> Len(n) >= 1 /\ Len(m) >= 1 /\ b = a
    BY <2>3, <2>4, <2>5
  <2> QED BY <2>6 DEF a, b
<1>4. ~P(2)
  <2> SUFFICES ASSUME P(2) PROVE FALSE
    OBVIOUS
  <2>1. Len(n) = 2 /\ Len(m) = 2
    BY <1>1
  <2>2. SubSeq(n, 1, 2) = n /\ SubSeq(m, 1, 2) = m
    BY <2>1, Beginnings
  <2> QED BY <2>2
<1>5. Common(n, m) = SubSeq(n, 1, k)
  BY DEF Common
<1> DEFINE Best(i) == P(i) /\ \A j \in (i + 1)..2 : ~P(j)
<1>6. k = CHOOSE i \in 0..2 : Best(i)
  OBVIOUS
<1> HIDE DEF k, P
<1>7. 0 + 1 = 1 /\ 1 + 1 = 2 /\ 2 + 1 = 3 /\ 0 \in 0..2 /\ 1 \in 0..2
  OBVIOUS
<1>8. Best(1) <=> P(1)
  <2>1. \A j \in (1 + 1)..2 : j = 2
    OBVIOUS
  <2> QED BY <1>4, <2>1
<1>9. Best(0) <=> ~P(1)
  <2>1. \A j \in (0 + 1)..2 : j = 1 \/ j = 2
    OBVIOUS
  <2>2. 1 \in (0 + 1)..2
    OBVIOUS
  <2> QED BY <1>2, <1>4, <2>1, <2>2
<1>10. ~Best(2)
  BY <1>4
<1> HIDE DEF Best
<1>11. Best(k) /\ k \in 0..2
  <2>1. \E i \in 0..2 : Best(i)
    BY <1>7, <1>8, <1>9
  <2> QED BY <1>6, <2>1
<1>12. k = 0 \/ k = 1 \/ k = 2
  BY <1>11
<1>13. CASE P(1)
  <2>1. k = 1
    BY <1>9, <1>10, <1>11, <1>12, <1>13
  <2>2. SubSeq(n, 1, 1) = <<n[1]>>
    BY <1>3, <1>13, Beginnings
  <2> QED BY <1>3, <1>5, <1>13, <2>1, <2>2
<1>14. CASE ~P(1)
  <2>1. k = 0
    BY <1>8, <1>10, <1>11, <1>12, <1>14
  <2>2. SubSeq(n, 1, 0) = <<>>
    BY Beginnings
  <2> QED BY <1>3, <1>5, <1>14, <2>1, <2>2
<1> QED
  BY <1>13, <1>14

\* The names that begin with the label of n are together in the order of names.
LEMMA KeyBlock ==
  ASSUME NEW n \in Names, Len(n) >= 1, NEW k \in Names
  PROVE (Len(k) >= 1 /\ k[1] = n[1]) <=> Key(k) \in (4 * Rank(n[1]))..(4 * Rank(n[1]) + 3)
<1> DEFINE r == Rank(n[1])
           s == Rank(k[1])
           u == Rank(k[2])
           b == Len(k)
<1>1. /\ b = 0 => Key(k) = 0
      /\ b = 1 => Key(k) = 4 * s
      /\ b = 2 => Key(k) = 4 * s + u
      /\ b >= 1 => s \in 1..3
      /\ b = 2 => u \in {1, 3}
  BY KeyIs
<1>2. b \in 0..2 /\ r \in 1..3
  BY NameShape, KeyIs
<1>3. \A l, m \in Label : Rank(l) = Rank(m) => l = m
  BY DEF Label, Rank
<1>4. b >= 1 => k[1] \in Label /\ n[1] \in Label
  <2>1. Len(n) \in 0..2 /\ Len(k) \in 0..2
    BY NameShape
  <2>2. n[1] \in Label
    <3>1. Len(n) = 1 \/ Len(n) = 2
      BY <2>1
    <3> QED BY <3>1, NameShape
  <2>3. b >= 1 => k[1] \in Label
    <3>1. b >= 1 => Len(k) = 1 \/ Len(k) = 2
      BY <2>1
    <3> QED BY <3>1, NameShape
  <2> QED BY <2>2, <2>3
<1>5. b >= 1 => (s = r <=> k[1] = n[1])
  BY <1>3, <1>4
<1> HIDE DEF r, s, u, b
<1>6. (b >= 1 /\ s = r) <=> Key(k) \in (4 * r)..(4 * r + 3)
  BY <1>1, <1>2
<1>7. (b >= 1 /\ k[1] = n[1]) <=> Key(k) \in (4 * r)..(4 * r + 3)
  BY <1>5, <1>6
<1> QED
  BY <1>7 DEF b, r

\* In a zone of plain names a record covers what is between its owner and the next one,
\* and there is none of the zone's names in between.
LEMMA CoversBetween ==
  ASSUME NEW z \in Zones, ~z.hashed, NEW o \in DenialOwners(z), NEW t \in Names, Covers(z, o, t)
  PROVE /\ \A k \in DenialOwners(z) : Key(k) < Key(t) => Key(k) <= Key(o)
        /\ \A k \in DenialOwners(z) : Key(k) > Key(t) => Key(NextOwner(z, o)) <= Key(k)
        /\ Key(o) < Key(t)
        /\ (\E k \in DenialOwners(z) : Key(k) > Key(t)) => Key(t) < Key(NextOwner(z, o))
<1> DEFINE D == DenialOwners(z)
           x == NextOwner(z, o)
<1>1. D \subseteq Names /\ <<>> \in D /\ o \in D /\ x \in D
  BY OwnersAre, NextIs
<1>2. \A n \in Names : Place(z, n) = Key(n) /\ Key(n) \in Nat
  BY PlaceIs, KeyIs
<1>3. \/ Key(x) > Key(o) /\ \A k \in D : Key(k) > Key(o) => Key(x) <= Key(k)
      \/ (\A k \in D : Key(k) <= Key(o)) /\ \A k \in D : Key(x) <= Key(k)
  <2>1. \/ Place(z, x) > Place(z, o) /\ \A k \in D : Place(z, k) > Place(z, o) => Place(z, x) <= Place(z, k)
        \/ (\A k \in D : Place(z, k) <= Place(z, o)) /\ \A k \in D : Place(z, x) <= Place(z, k)
    BY NextIs
  <2> HIDE DEF D, x
  <2>2. \A k \in D : Place(z, k) = Key(k)
    BY <1>1, <1>2
  <2> QED BY <1>1, <2>1, <2>2
<1>4. IF Key(o) < Key(x) THEN Key(o) < Key(t) /\ Key(t) < Key(x) ELSE Key(t) > Key(o) \/ Key(t) < Key(x)
  <2>1. IF Place(z, o) < Place(z, x) THEN Place(z, o) < Place(z, t) /\ Place(z, t) < Place(z, x)
        ELSE Place(z, t) > Place(z, o) \/ Place(z, t) < Place(z, x)
    BY DEF Covers
  <2> HIDE DEF D, x
  <2> QED BY <1>1, <1>2, <2>1
<1>5. Key(<<>>) = 0
  BY NamesThere, KeyIs
<1>6. \A k \in D : Key(k) \in Nat
  BY <1>1, <1>2
<1>7. Key(o) \in Nat /\ Key(t) \in Nat /\ Key(x) \in Nat
  BY <1>1, <1>2
<1> HIDE DEF D, x
<1>8. CASE Key(x) > Key(o) /\ \A k \in D : Key(k) > Key(o) => Key(x) <= Key(k)
  <2>1. Key(o) < Key(t) /\ Key(t) < Key(x)
    BY <1>4, <1>7, <1>8
  <2>2. \A k \in D : Key(k) <= Key(o) \/ Key(x) <= Key(k)
    BY <1>6, <1>7, <1>8
  <2>3. \A k \in D : Key(k) < Key(t) => Key(k) <= Key(o)
    BY <1>6, <1>7, <2>1, <2>2
  <2>4. \A k \in D : Key(k) > Key(t) => Key(x) <= Key(k)
    BY <1>6, <1>7, <2>1, <2>2
  <2> QED BY <2>1, <2>3, <2>4 DEF D, x
<1>9. CASE (\A k \in D : Key(k) <= Key(o)) /\ \A k \in D : Key(x) <= Key(k)
  <2>1. Key(x) = 0
    BY <1>1, <1>5, <1>7, <1>9
  <2>2. Key(o) < Key(t)
    BY <1>4, <1>7, <2>1
  <2>3. \A k \in D : ~(Key(k) > Key(t))
    BY <1>6, <1>7, <1>9, <2>2
  <2> QED BY <1>9, <2>2, <2>3 DEF D, x
<1> QED
  BY <1>3, <1>8, <1>9

\* The closest encloser that _denies_tlsa_nsec takes from a record that covers q.
Shown(z, q, o) ==
    LET n == Common(q, o)
        m == Common(q, NextOwner(z, o))
    IN  IF Len(n) >= Len(m) THEN n ELSE m

\* It is the closest encloser of q, or q itself when q only has names below it.
LEMMA ShownIs ==
  ASSUME NEW z \in Zones, ~z.hashed, NEW q \in Names, Len(q) >= 1, q \notin ZoneNames(z),
         NEW o \in DenialOwners(z), Covers(z, o, q)
  PROVE /\ Exists(z, q) => Shown(z, q, o) = q /\ Len(q) = 1
        /\ ~Exists(z, q) => Encloser(z, q, Shown(z, q, o))
<1> DEFINE Z == ZoneNames(z)
           x == NextOwner(z, o)
           l == q[1]
           Same(k) == Len(k) >= 1 /\ k[1] = q[1]
<1>1. Z \subseteq Names /\ <<>> \in Z /\ DenialOwners(z) = Z /\ o \in Z /\ x \in Z
  BY OwnersAre, NextIs
<1>2. /\ \A k \in Z : Key(k) < Key(q) => Key(k) <= Key(o)
      /\ \A k \in Z : Key(k) > Key(q) => Key(x) <= Key(k)
      /\ Key(o) < Key(q)
      /\ (\E k \in Z : Key(k) > Key(q)) => Key(q) < Key(x)
  <2>1. /\ \A k \in DenialOwners(z) : Key(k) < Key(q) => Key(k) <= Key(o)
        /\ \A k \in DenialOwners(z) : Key(k) > Key(q) => Key(x) <= Key(k)
        /\ Key(o) < Key(q)
        /\ (\E k \in DenialOwners(z) : Key(k) > Key(q)) => Key(q) < Key(x)
    BY CoversBetween
  <2> QED BY <1>1, <2>1
<1>3. Len(q) \in 1..2 /\ l \in Label
  <2>1. Len(q) \in 0..2
    BY NameShape
  <2>2. Len(q) = 1 \/ Len(q) = 2
    BY <2>1
  <2> QED BY <2>2, NameShape
<1>4. o # q /\ x # q
  BY <1>1
<1>5. \A k \in Z : Same(k) => Same(o) \/ Same(x)
  <2> TAKE k \in Z
  <2> HAVE Same(k)
  <2> DEFINE low == 4 * Rank(q[1])
             high == 4 * Rank(q[1]) + 3
  <2>1. k \in Names /\ o \in Names /\ x \in Names /\ k # q
    BY <1>1
  <2>2. \A i \in Names : Same(i) <=> Key(i) \in low..high
    BY KeyBlock
  <2>3. Key(k) \in Nat /\ Key(q) \in Nat /\ Key(o) \in Nat /\ Key(x) \in Nat /\ low \in Nat /\ high \in Nat
    <3>1. Rank(q[1]) \in 1..3
      BY KeyIs
    <3>2. \A i \in Names : Key(i) \in Nat
      BY KeyIs
    <3> QED BY <2>1, <3>1, <3>2
  <2>4. Key(q) \in low..high /\ Key(k) \in low..high
    <3>1. Same(q)
      BY <1>3
    <3> HIDE DEF low, high, Same
    <3> QED BY <2>1, <2>2, <3>1
  <2>5. Key(k) # Key(q)
    BY <2>1, KeyInjective
  <2> HIDE DEF low, high, Same, x, Z
  <2>6. CASE Key(k) < Key(q)
    <3>1. Key(k) <= Key(o) /\ Key(o) < Key(q)
      BY <1>2, <2>6
    <3>2. Key(o) \in low..high
      BY <2>3, <2>4, <3>1
    <3> QED BY <2>1, <2>2, <3>2
  <2>7. CASE Key(k) > Key(q)
    <3>1. Key(x) <= Key(k) /\ Key(q) < Key(x)
      BY <1>2, <2>7
    <3>2. Key(x) \in low..high
      BY <2>3, <2>4, <3>1
    <3> QED BY <2>1, <2>2, <3>2
  <2> QED BY <2>3, <2>5, <2>6, <2>7
<1>6. Common(q, o) = (IF Same(o) THEN <<l>> ELSE <<>>) /\ Common(q, x) = (IF Same(x) THEN <<l>> ELSE <<>>)
  <2>1. \A k \in Names : k # q => Common(q, k) = IF Len(q) >= 1 /\ Len(k) >= 1 /\ k[1] = q[1] THEN <<q[1]>> ELSE <<>>
    BY CommonIs
  <2>2. o \in Names /\ x \in Names
    BY <1>1
  <2> QED BY <1>4, <2>1, <2>2
<1>7. Shown(z, q, o) = IF Same(o) \/ Same(x) THEN <<l>> ELSE <<>>
  <2>1. Len(<<l>>) = 1 /\ Len(<<>>) = 0
    OBVIOUS
  <2>2. Shown(z, q, o) = IF Len(Common(q, o)) >= Len(Common(q, x)) THEN Common(q, o) ELSE Common(q, x)
    BY DEF Shown
  <2> DEFINE a == Common(q, o)
             b == Common(q, x)
             v == <<l>>
             w == <<>>
  <2>3. Shown(z, q, o) = IF Len(a) >= Len(b) THEN a ELSE b
    BY <2>2
  <2>4. (Same(o) => a = v) /\ (~Same(o) => a = w) /\ (Same(x) => b = v) /\ (~Same(x) => b = w)
    BY <1>6
  <2>5. Len(v) = 1 /\ Len(w) = 0
    BY <2>1
  <2> HIDE DEF a, b, v, w, Same, x
  <2>6. (Same(o) \/ Same(x)) => Shown(z, q, o) = v
    BY <2>3, <2>4, <2>5
  <2>7. ~(Same(o) \/ Same(x)) => Shown(z, q, o) = w
    BY <2>3, <2>4, <2>5
  <2> QED BY <2>6, <2>7 DEF v, w
<1>8. <<l>> \in Names /\ Len(<<l>>) = 1 /\ <<l>>[1] = l
  BY <1>3, NamesThere
<1>9. \A k \in Names : Same(k) <=> k = <<l>> \/ Above(<<l>>, k)
  <2> TAKE k \in Names
  <2> DEFINE v == <<l>>
  <2>1. v \in Names /\ Len(v) = 1 /\ v[1] = l
    BY <1>8
  <2>2. Len(k) \in 0..2
    BY NameShape
  <2>3. Len(k) = 1 => k = <<k[1]>>
    BY NameShape
  <2>4. Above(v, k) <=> Len(k) = 2 /\ k[1] = l
    <3> HIDE DEF v, l
    <3>1. Above(v, k) <=> \/ Len(v) = 0 /\ Len(k) > 0
                          \/ Len(v) = 1 /\ Len(k) = 2 /\ k[1] = v[1]
      BY <2>1, AboveIs
    <3> QED BY <2>1, <3>1
  <2>5. k = v <=> Len(k) = 1 /\ k[1] = l
    <3>1. k = v => Len(k) = 1 /\ k[1] = l
      <4> HIDE DEF v, l
      <4> QED BY <2>1
    <3>2. Len(k) = 1 /\ k[1] = l => k = v
      BY <2>3
    <3> QED BY <3>1, <3>2
  <2>6. Same(k) <=> (Len(k) = 1 \/ Len(k) = 2) /\ k[1] = l
    BY <2>2
  <2> HIDE DEF Same, l, v
  <2>7. Same(k) <=> k = v \/ Above(v, k)
    BY <2>4, <2>5, <2>6
  <2> QED BY <2>7 DEF v
<1> HIDE DEF Same, l, x
<1>10. Exists(z, <<l>>) <=> \E k \in Z : Same(k)
  <2> DEFINE v == <<l>>
  <2>1. Exists(z, v) <=> \E k \in Z : k = v \/ Above(v, k)
    BY DEF Exists
  <2>2. \A k \in Z : Same(k) <=> k = v \/ Above(v, k)
    BY <1>1, <1>9
  <2> HIDE DEF v, Z
  <2>3. Exists(z, v) <=> \E k \in Z : Same(k)
    BY <2>1, <2>2
  <2> QED BY <2>3 DEF v
<1>11. Shown(z, q, o) = IF Exists(z, <<l>>) THEN <<l>> ELSE <<>>
  BY <1>1, <1>5, <1>7, <1>10
<1>12. CASE Len(q) = 1
  <2>1. q = <<l>>
    BY <1>12, NameShape DEF l
  <2>2. ~Exists(z, q) => Shown(z, q, o) = <<>>
    BY <1>11, <2>1
  <2>3. Exists(z, q) => Shown(z, q, o) = q
    BY <1>11, <2>1
  <2>4. \A m \in Names : Above(m, q) => Len(m) = 0
    BY <1>12, AboveIs
  <2>5. Len(<<>>) = 0 /\ <<>> \in Names /\ Exists(z, <<>>) /\ Above(<<>>, q)
    BY ApexAbove
  <2>6. Encloser(z, q, <<>>)
    <3>1. \A m \in Names : Above(m, q) => Len(m) <= Len(<<>>)
      BY <2>4, <2>5
    <3> QED BY <2>5, <3>1 DEF Encloser
  <2> QED BY <1>12, <2>2, <2>3, <2>6
<1>13. CASE Len(q) = 2
  <2> DEFINE v == <<l>>
  <2>1. ~Exists(z, q)
    <3>1. ASSUME NEW k \in Names PROVE ~Above(q, k)
      <4>1. \/ Len(q) = 0 /\ Len(k) > 0
            \/ Len(q) = 1 /\ Len(k) = 2 /\ k[1] = q[1]
            \/ ~Above(q, k)
        BY AboveIs
      <4> QED BY <1>13, <4>1
    <3> QED BY <1>1, <3>1 DEF Exists
  <2>2. v \in Names /\ Above(v, q) /\ Len(v) = 1
    <3>1. q[1] = l
      BY DEF l
    <3>2. v \in Names /\ Len(v) = 1 /\ v[1] = l
      BY <1>8
    <3> HIDE DEF v, l
    <3> QED BY <1>13, <3>1, <3>2, AboveIs
  <2>3. \A m \in Names : Above(m, q) => Len(m) = 0 \/ Len(m) = 1
    BY AboveIs
  <2>4. Shown(z, q, o) = IF Exists(z, v) THEN v ELSE <<>>
    BY <1>11
  <2> HIDE DEF v
  <2>5. CASE Exists(z, v)
    <3>1. \A m \in Names : Above(m, q) => Len(m) <= 1
      BY AboveShort
    <3>2. \A m \in Names : Above(m, q) => Len(m) <= Len(v)
      BY <2>2, <3>1
    <3>3. Encloser(z, q, v)
      BY <2>2, <2>5, <3>2 DEF Encloser
    <3> QED BY <2>1, <2>4, <2>5, <3>3
  <2>6. CASE ~Exists(z, v)
    <3>1. Len(<<>>) = 0 /\ <<>> \in Names /\ Exists(z, <<>>) /\ Above(<<>>, q)
      BY ApexAbove
    <3>2. ASSUME NEW m \in Names, Above(m, q), Exists(z, m) PROVE Len(m) <= Len(<<>>)
      <4>1. CASE Len(m) = 1
        <5>1. m = v
          BY <2>2, <3>2, <4>1, AboveUnique
        <5> QED BY <2>6, <3>2, <5>1
      <4>2. CASE Len(m) = 0
        BY <3>1, <4>2
      <4> QED BY <2>3, <3>2, <4>1, <4>2
    <3>3. Encloser(z, q, <<>>)
      BY <3>1, <3>2 DEF Encloser
    <3> QED BY <2>1, <2>4, <2>6, <3>3
  <2> QED BY <2>5, <2>6
<1> QED
  BY <1>3, <1>12, <1>13

-----------------------------------------------------------------------------
(* The denial of existence: what a proof proves.                            *)

\* A wildcard no record of its own is made for has no TLSA record.
LEMMA NoOwnerLacks ==
  ASSUME NEW z \in Zones, NEW n \in Names, n \notin DenialOwners(z)
  PROVE Lacks(z, n)
<1>1. CASE n \in DOMAIN z.owners
  <2>1. n \in ZoneNames(z)
    BY <1>1 DEF ZoneNames
  <2>2. z.hashed
    BY <2>1, OwnersAre
  <2>3. Exists(z, n)
    BY <2>1 DEF Exists
  <2>4. z.owners[n] = "delegated"
    BY <2>2, <2>3, OwnersAre
  <2> QED BY <1>1, <2>4 DEF Lacks, TypesOf
<1>2. CASE n \notin DOMAIN z.owners
  BY <1>2 DEF Lacks, TypesOf
<1> QED
  BY <1>1, <1>2

\* The closest encloser among some owners.
Nearest(q, owners, c) ==
    /\ c \in Names /\ Above(c, q) /\ c \in owners
    /\ \A m \in Names : Above(m, q) /\ m \in owners => Len(m) <= Len(c)

\* What _denies_tlsa asks of the closest encloser it finds.
LEMMA Nsec3Asks ==
  ASSUME NEW z \in Zones, NEW q \in Names, NEW owners, q \notin owners
  PROVE /\ DeniesNsec3(z, q, owners) =>
             \E c : /\ Nearest(q, owners, c)
                    /\ \E o \in owners : Covers(z, o, SubSeq(q, 1, Len(c) + 1))
                    /\ \E o \in owners : Covers(z, o, Wild(c))
        /\ \A c : (/\ Nearest(q, owners, c)
                   /\ \E o \in owners : Covers(z, o, SubSeq(q, 1, Len(c) + 1))
                   /\ \E o \in owners : Covers(z, o, Wild(c)))
                  => DeniesNsec3(z, q, owners)
<1> DEFINE enclosers == {n \in Names : Above(n, q) /\ n \in owners}
           closest == CHOOSE n \in enclosers : \A m \in enclosers : Len(m) <= Len(n)
           Held(n) == \E o \in owners : Covers(z, o, n)
<1>1. DeniesNsec3(z, q, owners) <=> /\ enclosers # {}
                                    /\ Held(SubSeq(q, 1, Len(closest) + 1))
                                    /\ Held(Wild(closest))
  BY DEF DeniesNsec3
<1>2. \A c : Nearest(q, owners, c) <=> c \in enclosers /\ \A m \in enclosers : Len(m) <= Len(c)
  BY DEF Nearest
<1>3. ASSUME enclosers # {} PROVE Nearest(q, owners, closest)
  <2>1. \E c : Nearest(q, owners, c)
    <3>1. CASE \E m \in enclosers : Len(m) = 1
      <4>1. PICK m \in enclosers : Len(m) = 1
        BY <3>1
      <4>2. \A n \in enclosers : Len(n) <= 1
        BY AboveShort
      <4>3. \A n \in enclosers : Len(n) <= Len(m)
        BY <4>1, <4>2
      <4> HIDE DEF enclosers
      <4> QED BY <1>2, <4>3
    <3>2. CASE ~\E m \in enclosers : Len(m) = 1
      <4>1. \A n \in enclosers : Len(n) = 0
        BY <3>2, AboveIs
      <4> HIDE DEF enclosers
      <4>2. PICK m \in enclosers : TRUE
        BY <1>3
      <4>3. \A n \in enclosers : Len(n) <= Len(m)
        BY <4>1
      <4> QED BY <1>2, <4>3
    <3> QED BY <3>1, <3>2
  <2>2. PICK c : c \in enclosers /\ \A m \in enclosers : Len(m) <= Len(c)
    BY <1>2, <2>1
  <2> HIDE DEF enclosers
  <2>3. closest \in enclosers /\ \A m \in enclosers : Len(m) <= Len(closest)
    BY <2>2
  <2> HIDE DEF closest
  <2> QED BY <1>2, <2>3
<1>4. ASSUME NEW c, Nearest(q, owners, c), enclosers # {} PROVE c = closest
  <2> HIDE DEF closest, enclosers
  <2>1. Nearest(q, owners, closest)
    BY <1>3, <1>4
  <2>2. c \in Names /\ closest \in Names /\ Above(c, q) /\ Above(closest, q)
    BY <1>4, <2>1 DEF Nearest
  <2>3. Len(c) <= Len(closest) /\ Len(closest) <= Len(c)
    BY <1>4, <2>1 DEF Nearest
  <2>4. Len(c) \in 0..2 /\ Len(closest) \in 0..2
    BY <2>2, NameShape
  <2>5. Len(c) = Len(closest)
    BY <2>3, <2>4
  <2> QED BY <2>2, <2>5, AboveUnique
<1> HIDE DEF closest, enclosers
<1>5. ASSUME DeniesNsec3(z, q, owners)
      PROVE \E c : Nearest(q, owners, c) /\ Held(SubSeq(q, 1, Len(c) + 1)) /\ Held(Wild(c))
  <2> HIDE DEF Held
  <2> QED BY <1>1, <1>3, <1>5
<1>6. ASSUME NEW c, Nearest(q, owners, c), Held(SubSeq(q, 1, Len(c) + 1)), Held(Wild(c))
      PROVE DeniesNsec3(z, q, owners)
  <2>1. enclosers # {}
    BY <1>2, <1>6
  <2>2. c = closest
    BY <1>4, <1>6, <2>1
  <2> HIDE DEF Held
  <2> QED BY <1>1, <1>6, <2>1, <2>2
<1> QED
  BY <1>5, <1>6

\* What _denies_tlsa_nsec asks of a name that owns nothing.
LEMMA NsecAsks ==
  ASSUME NEW z \in Zones, NEW q \in Names, NEW owners, q \notin owners
  PROVE /\ DeniesNsec(z, q, owners) =>
             \E f \in owners : Covers(z, f, q) /\ \E o \in owners : Covers(z, o, Wild(Shown(z, q, f)))
        /\ (/\ \E f \in owners : Covers(z, f, q)
            /\ \A f \in owners : Covers(z, f, q) => \E o \in owners : Covers(z, o, Wild(Shown(z, q, f))))
           => DeniesNsec(z, q, owners)
<1> DEFINE covering == {o \in owners : Covers(z, o, q)}
           first == CHOOSE o \in covering : TRUE
<1>1. DeniesNsec(z, q, owners) <=> covering # {} /\ \E o \in owners : Covers(z, o, Wild(Shown(z, q, first)))
  BY DEF DeniesNsec, Shown
<1>2. covering # {} => first \in covering
  OBVIOUS
<1> HIDE DEF first
<1> QED
  BY <1>1, <1>2

\* A name that is an owner exists, and its type bitmap says what it has.
LEMMA OwnerAnswers ==
  ASSUME NEW z \in Zones, NEW q \in DenialOwners(z)
  PROVE Lacks(z, q) <=> ~Answered(z, q)
<1>1. Exists(z, q)
  BY OwnersAre
<1> QED
  BY <1>1 DEF Answered

\* What stands where the wildcard below a name would is a name below it.
LEMMA WildBelow ==
  ASSUME NEW n \in Names, Len(n) >= 1, NEW m \in Names, m = Wild(n) \/ Above(Wild(n), m)
  PROVE m = Wild(n) /\ Above(n, m)
<1>1. n \in Seq(Label) /\ Len(n) \in 1..2 /\ Len(m) \in 0..2
  BY NameShape
<1>2. "*" \in Label
  BY DEF Label
<1>3. /\ Wild(n) \in Seq(Label) /\ Len(Wild(n)) = Len(n) + 1
      /\ Wild(n)[1] = n[1]
  <2>1. 1 \in 1..Len(n)
    BY <1>1
  <2> QED BY <1>1, <1>2, <2>1, AppendProperties DEF Wild
<1>4. m = Wild(n)
  <2>1. CASE Above(Wild(n), m)
    <3>1. Len(Wild(n)) < Len(m)
      BY <2>1 DEF Above
    <3>2. PICK a \in 1..2, b \in 0..2 : a = Len(n) /\ b = Len(m)
      BY <1>1
    <3>3. a + 1 < b
      BY <1>3, <3>1, <3>2
    <3> QED BY <3>2, <3>3
  <2> QED BY <2>1
<1>5. Len(n) = 1 /\ Len(m) = 2 /\ m[1] = n[1]
  BY <1>1, <1>3, <1>4
<1> QED
  BY <1>4, <1>5, AboveIs

\* A name that a zone delegates away has no TLSA record there, nor a wildcard in its place.
LEMMA DelegatedAway ==
  ASSUME NEW z \in Zones, NEW q \in Names, Elsewhere(z, q)
  PROVE /\ ~Answered(z, q)
        /\ ~Exists(z, Wild(IF Exists(z, q) THEN q ELSE Closest(z, q)))
<1>1. PICK n \in DOMAIN z.owners : z.owners[n] = "delegated" /\ (n = q \/ Above(n, q))
  BY DEF Elsewhere
<1>2. n \in Names /\ Len(n) \in 1..2 /\ n \in ZoneNames(z)
  <2>1. n \in Names /\ n # <<>>
    BY ZoneIs
  <2>2. Len(n) \in 0..2 /\ (Len(n) = 0 => n = <<>>)
    BY <2>1, NameShape
  <2> QED BY <2>1, <2>2 DEF ZoneNames
<1>3. \A m \in ZoneNames(z) : ~Above(n, m)
  <2> SUFFICES ASSUME NEW m \in ZoneNames(z), Above(n, m) PROVE FALSE
    OBVIOUS
  <2>1. m \in Names
    BY OwnersAre
  <2>2. m # <<>>
    <3>1. Len(m) > 0
      BY <1>2, <2>1, AboveIs
    <3>2. Len(<<>>) = 0
      OBVIOUS
    <3> QED BY <3>1, <3>2
  <2>3. m \in DOMAIN z.owners
    BY <2>2 DEF ZoneNames
  <2> QED BY <1>1, <2>3 DEF Zones
<1>4. ~Exists(z, Wild(n))
  <2> SUFFICES ASSUME NEW m \in ZoneNames(z), m = Wild(n) \/ Above(Wild(n), m) PROVE FALSE
    BY DEF Exists
  <2>1. m \in Names
    BY OwnersAre
  <2>2. Len(n) >= 1
    <3>1. PICK a \in 1..2 : a = Len(n)
      BY <1>2
    <3> QED BY <3>1
  <2> QED BY <1>2, <1>3, <2>1, <2>2, WildBelow
<1>5. Wild(n) \notin ZoneNames(z)
  BY <1>4 DEF Exists
<1>6. Lacks(z, Wild(n)) /\ Lacks(z, n)
  BY <1>1, <1>5 DEF Lacks, TypesOf, ZoneNames
<1>7. Exists(z, n)
  BY <1>2 DEF Exists
<1>8. CASE n = q
  BY <1>4, <1>6, <1>7, <1>8 DEF Answered
<1>9. CASE Above(n, q)
  <2>1. Len(n) = 1 /\ Len(q) = 2
    <3>1. Len(n) # 0
      BY <1>2
    <3> QED BY <1>2, <1>9, <3>1, AboveIs
  <2>2. ~Exists(z, q)
    <3> SUFFICES ASSUME NEW m \in ZoneNames(z), m = q \/ Above(q, m) PROVE FALSE
      BY DEF Exists
    <3>1. m \in Names
      BY OwnersAre
    <3>2. CASE m = q
      BY <1>3, <1>9, <3>2
    <3>3. CASE Above(q, m)
      <4>1. Len(q) \in 0..1
        BY <3>1, <3>3, AboveShort
      <4> QED BY <2>1, <4>1
    <3> QED BY <3>2, <3>3
  <2>3. Encloser(z, q, n)
    <3>1. ASSUME NEW m \in Names, Above(m, q), Exists(z, m) PROVE Len(m) <= Len(n)
      BY <2>1, <3>1, AboveShort
    <3> QED BY <1>2, <1>7, <1>9, <3>1 DEF Encloser
  <2>4. Closest(z, q) = n
    BY <2>3, EncloserIsClosest
  <2> QED BY <1>4, <1>6, <2>2, <2>4 DEF Answered
<1> QED
  BY <1>1, <1>8, <1>9

\* A proof made of any part of the denial records of a zone is right.
LEMMA DenialSound ==
  ASSUME NEW z \in Zones, NEW q \in Names, Len(q) >= 1,
         NEW owners \in SUBSET DenialOwners(z), Denies(z, q, owners)
  PROVE ~Answered(z, q)
<1> DEFINE D == DenialOwners(z)
<1>1. owners \subseteq D /\ D \subseteq Names
  BY OwnersAre
<1>2. \A o \in owners, t \in Names : Covers(z, o, t) => t \notin D
  BY CoveredIsNoOwner
<1>3. CASE q \in owners
  <2>1. Lacks(z, q)
    BY <1>3 DEF Denies, DeniesNsec3, DeniesNsec
  <2>2. q \in DenialOwners(z)
    BY <1>3
  <2> QED BY <2>1, <2>2, OwnerAnswers
<1>4. CASE q \notin owners /\ z.hashed
  <2>1. PICK c : /\ Nearest(q, owners, c)
                 /\ \E o \in owners : Covers(z, o, SubSeq(q, 1, Len(c) + 1))
                 /\ \E o \in owners : Covers(z, o, Wild(c))
    <3>1. DeniesNsec3(z, q, owners)
      BY <1>4 DEF Denies
    <3> QED BY <1>4, <3>1, Nsec3Asks
  <2> DEFINE x == SubSeq(q, 1, Len(c) + 1)
  <2>2. c \in Names /\ Above(c, q) /\ c \in D
    BY <1>1, <2>1 DEF Nearest
  <2>3. /\ x \in Names /\ (x = q \/ Above(x, q))
        /\ \A m \in Names : Above(m, q) /\ ~(Len(m) <= Len(c)) => m = x
    BY <2>2, NextCloser
  <2>4. x \notin D
    BY <1>2, <2>1, <2>3
  <2>5. Wild(c) \in Names
    <3>1. Len(c) \in 0..1
      BY <2>2, AboveShort
    <3> QED BY <2>2, <3>1, WildIs
  <2>6. Wild(c) \notin D
    BY <1>2, <2>1, <2>5
  <2> HIDE DEF x
  <2>7. CASE Exists(z, x)
    <3>1. x \in DOMAIN z.owners /\ z.owners[x] = "delegated"
      BY <1>4, <2>3, <2>4, <2>7, OwnersAre DEF D
    <3>2. Elsewhere(z, q)
      BY <2>3, <3>1 DEF Elsewhere
    <3> QED BY <3>2, DelegatedAway
  <2>8. CASE ~Exists(z, x)
    <3>1. ~Exists(z, q)
      BY <2>3, <2>8, ExistsAbove
    <3>2. Encloser(z, q, c)
      <4>1. Exists(z, c)
        BY <2>2, OwnersAre DEF D
      <4>2. ASSUME NEW m \in Names, Above(m, q), Exists(z, m) PROVE Len(m) <= Len(c)
        BY <2>3, <2>8, <4>2
      <4> QED BY <2>2, <4>1, <4>2 DEF Encloser
    <3>3. Closest(z, q) = c
      BY <3>2, EncloserIsClosest
    <3>4. Lacks(z, Wild(c))
      BY <2>5, <2>6, NoOwnerLacks DEF D
    <3> QED BY <3>1, <3>3, <3>4 DEF Answered
  <2> QED BY <2>7, <2>8
<1>5. CASE q \notin owners /\ ~z.hashed
  <2>1. PICK f \in owners : Covers(z, f, q) /\ \E o \in owners : Covers(z, o, Wild(Shown(z, q, f)))
    <3>1. DeniesNsec(z, q, owners)
      BY <1>5 DEF Denies
    <3> QED BY <1>5, <3>1, NsecAsks
  <2>2. q \notin D /\ f \in DenialOwners(z)
    BY <1>1, <1>2, <2>1
  <2>3. q \notin ZoneNames(z)
    BY <1>5, <2>2, OwnersAre DEF D
  <2>4. CASE Exists(z, q)
    <3>1. Lacks(z, q)
      BY <2>2, NoOwnerLacks DEF D
    <3> QED BY <2>4, <3>1 DEF Answered
  <2>5. CASE ~Exists(z, q)
    <3> DEFINE c == Shown(z, q, f)
    <3>1. Encloser(z, q, c)
      BY <1>5, <2>1, <2>2, <2>3, <2>5, ShownIs
    <3> HIDE DEF c
    <3>2. Closest(z, q) = c
      BY <3>1, EncloserIsClosest
    <3>3. Wild(c) \in Names
      <4>1. c \in Names /\ Above(c, q)
        BY <3>1 DEF Encloser
      <4>2. Len(c) \in 0..1
        BY <4>1, AboveShort
      <4> QED BY <4>1, <4>2, WildIs
    <3>4. Wild(c) \notin D
      BY <1>2, <2>1, <3>3 DEF c
    <3>5. Lacks(z, Wild(c))
      BY <3>3, <3>4, NoOwnerLacks DEF D
    <3> QED BY <2>5, <3>2, <3>5 DEF Answered
  <2> QED BY <2>4, <2>5
<1> QED
  BY <1>3, <1>4, <1>5

\* A proof made of all of them proves every absence, but where a wildcard stands.
LEMMA DenialComplete ==
  ASSUME NEW z \in Zones, NEW q \in Names, Len(q) >= 1, ~z.optout, ~Answered(z, q)
  PROVE \/ Denies(z, q, DenialOwners(z))
        \/ Exists(z, Wild(IF Exists(z, q) THEN q ELSE Closest(z, q)))
<1> DEFINE D == DenialOwners(z)
           e == IF Exists(z, q) THEN q ELSE Closest(z, q)
<1>1. D \subseteq Names /\ <<>> \in D
  BY OwnersAre
<1>2. \A t \in Names : t \notin D => \E o \in D : Covers(z, o, t)
  BY NoOwnerIsCovered
<1>3. \A n \in Names : Exists(z, n) => n \in D \/ ~z.hashed
  BY OwnersAre
<1>4. \A n \in D : Exists(z, n)
  BY OwnersAre
<1>5. D # {}
  BY <1>1
<1>6. CASE q \in D
  <2>1. Lacks(z, q)
    BY <1>6, OwnerAnswers
  <2>2. DeniesNsec3(z, q, D) /\ DeniesNsec(z, q, D)
    BY <1>6, <2>1 DEF DeniesNsec3, DeniesNsec
  <2> QED BY <1>5, <2>2 DEF Denies
<1>7. CASE q \notin D /\ z.hashed
  <2>1. ~Exists(z, q)
    BY <1>3, <1>7
  <2>2. PICK c : Encloser(z, q, c)
    BY EncloserExists
  <2>3. Closest(z, q) = c
    BY <2>2, EncloserIsClosest
  <2>4. c \in Names /\ Above(c, q) /\ Exists(z, c)
        /\ \A m \in Names : Above(m, q) /\ Exists(z, m) => Len(m) <= Len(c)
    BY <2>2 DEF Encloser
  <2>5. CASE Exists(z, Wild(c))
    BY <2>1, <2>3, <2>5
  <2>6. CASE ~Exists(z, Wild(c))
    <3> DEFINE x == SubSeq(q, 1, Len(c) + 1)
    <3>1. x \in Names /\ (x = q \/ Above(x, q)) /\ Len(x) = Len(c) + 1
      BY <2>4, NextCloser
    <3>2. ~Exists(z, x)
      <4>1. CASE x = q
        BY <2>1, <4>1
      <4>2. CASE Above(x, q)
        <5>1. Len(x) \in 0..2 /\ Len(c) \in 0..2
          BY <2>4, <3>1, NameShape
        <5>2. ~(Len(x) <= Len(c))
          <6> DEFINE a == Len(x)
                     b == Len(c)
          <6>1. a = b + 1 /\ b \in 0..2
            BY <3>1, <5>1
          <6> HIDE DEF a, b
          <6>2. ~(a <= b)
            BY <6>1
          <6> QED BY <6>2 DEF a, b
        <5> HIDE DEF x
        <5> QED BY <2>4, <3>1, <4>2, <5>2
      <4> QED BY <3>1, <4>1, <4>2
    <3>3. \E o \in D : Covers(z, o, x)
      <4> HIDE DEF x
      <4> QED BY <1>2, <1>4, <3>1, <3>2
    <3>4. \E o \in D : Covers(z, o, Wild(c))
      <4>1. Len(c) \in 0..1
        BY <2>4, AboveShort
      <4>2. Wild(c) \in Names
        BY <2>4, <4>1, WildIs
      <4> QED BY <1>2, <1>4, <2>6, <4>2
    <3>5. Nearest(q, D, c)
      <4>1. c \in D
        BY <1>3, <1>7, <2>4
      <4> QED BY <1>1, <1>4, <2>4, <4>1 DEF Nearest
    <3>6. DeniesNsec3(z, q, D)
      BY <1>7, <3>3, <3>4, <3>5, Nsec3Asks
    <3> QED BY <1>5, <1>7, <3>6 DEF Denies
  <2> QED BY <2>5, <2>6
<1>8. CASE q \notin D /\ ~z.hashed
  <2>1. q \notin ZoneNames(z)
    BY <1>8, OwnersAre
  <2>2. \E f \in D : Covers(z, f, q)
    BY <1>2, <1>8
  <2>3. ASSUME NEW f \in D, Covers(z, f, q)
        PROVE Shown(z, q, f) = e /\ e \in Names /\ Len(e) \in 0..1
    <3>1. CASE Exists(z, q)
      <4>1. Shown(z, q, f) = q /\ Len(q) = 1
        BY <1>8, <2>1, <2>3, <3>1, ShownIs
      <4> QED BY <3>1, <4>1
    <3>2. CASE ~Exists(z, q)
      <4> DEFINE c == Shown(z, q, f)
      <4>1. Encloser(z, q, c)
        BY <1>8, <2>1, <2>3, <3>2, ShownIs
      <4> HIDE DEF c
      <4>2. Closest(z, q) = c
        BY <4>1, EncloserIsClosest
      <4>3. c \in Names /\ Above(c, q)
        BY <4>1 DEF Encloser
      <4>4. Len(c) \in 0..1
        BY <4>3, AboveShort
      <4> QED BY <3>2, <4>2, <4>3, <4>4 DEF c
    <3> QED BY <3>1, <3>2
  <2> HIDE DEF e, D
  <2>4. CASE Exists(z, Wild(e))
    BY <2>4 DEF e
  <2>5. CASE ~Exists(z, Wild(e))
    <3>1. e \in Names /\ Len(e) \in 0..1
      BY <2>2, <2>3
    <3>2. Wild(e) \in Names
      BY <3>1, WildIs
    <3>3. \E o \in D : Covers(z, o, Wild(e))
      BY <1>2, <1>4, <2>5, <3>2
    <3>4. \A f \in D : Covers(z, f, q) => \E o \in D : Covers(z, o, Wild(Shown(z, q, f)))
      BY <2>3, <3>3
    <3>5. DeniesNsec(z, q, D)
      BY <1>8, <2>2, <3>4, NsecAsks
    <3>6. Denies(z, q, D)
      BY <1>5, <1>8, <3>5 DEF Denies
    <3> QED BY <3>6 DEF D
  <2> QED BY <2>4, <2>5
<1> QED
  BY <1>6, <1>7, <1>8

-----------------------------------------------------------------------------
(* The denial of existence: a run.                                          *)

\* The records of a denial are the zone's, and the verdict is what they prove.
DenialInv ==
    probe = "denial" =>
        /\ \E z \in Zones : peer.zone = z
        /\ peer.asked \in Names /\ Len(peer.asked) >= 1
        /\ proof \subseteq DenialOwners(peer.zone)
        /\ pc = "done" => verdict.denied = Denies(peer.zone, peer.asked, proof)

\* There is no proof yet.
LEMMA DenialBegins == Init => DenialInv
<1> SUFFICES ASSUME Init, probe = "denial" PROVE DenialInv
  BY DEF DenialInv
<1>1. DenialInit
  <2> USE DEF Begin
  <2>1. ~HandshakeInit
    BY DEF HandshakeInit, HandshakeProbes, Probes12, Probes13
  <2>2. ~FeatureInit
    BY DEF FeatureInit, FeatureKinds, EchoProbes
  <2>3. ~AppInit
    BY DEF AppInit, AppKinds
  <2>4. ~NameInit
    BY DEF NameInit, PolicyChecks
  <2>5. ~QuicInit
    BY DEF QuicInit
  <2> QED BY <2>1, <2>2, <2>3, <2>4, <2>5 DEF Init
<1>2. PICK z \in Zones, q \in {<<"a">>, <<"a", "b">>, <<"b", "b">>} :
        peer = [zone |-> z, asked |-> q] /\ proof = {} /\ pc = "proof"
  BY <1>1 DEF DenialInit, Begin
<1>3. peer.zone = z /\ peer.asked = q
  BY <1>2
<1>4. q \in Names /\ Len(q) >= 1
  <2>1. "a" \in Label /\ "b" \in Label
    BY DEF Label
  <2>2. <<"a">> \in Names
    BY <2>1, NamesThere
  <2>3. <<"a", "b">> \in Names
    BY <2>1, NamesThere
  <2>4. <<"b", "b">> \in Names
    BY <2>1, NamesThere
  <2>5. Len(<<"a">>) = 1
    OBVIOUS
  <2>6. Len(<<"a", "b">>) = 2
    OBVIOUS
  <2>7. Len(<<"b", "b">>) = 2
    OBVIOUS
  <2>8. CASE q = <<"a">>
    BY <2>2, <2>5, <2>8
  <2>9. CASE q = <<"a", "b">>
    BY <2>3, <2>6, <2>9
  <2>10. CASE q = <<"b", "b">>
    BY <2>4, <2>7, <2>10
  <2> QED BY <2>8, <2>9, <2>10
<1> QED
  BY <1>2, <1>3, <1>4 DEF DenialInv

\* A proof is made of the records of the zone.
LEMMA DenialGoesOn == DenialInv /\ [Next]_vars => DenialInv'
<1> SUFFICES ASSUME DenialInv, [Next]_vars, probe' = "denial" PROVE DenialInv'
  BY DEF DenialInv
<1>1. probe = "denial" /\ peer' = peer
  BY NameFamily
<1>2. PICK z \in Zones : peer.zone = z
  BY <1>1 DEF DenialInv
<1>3. peer.asked \in Names /\ Len(peer.asked) >= 1
  BY <1>1 DEF DenialInv
<1>4. CASE Prove
  <2>1. PICK k : proof' \in kSubset(k, DenialOwners(z))
    BY <1>2, <1>4 DEF Prove
  <2>2. proof' \subseteq DenialOwners(z)
    BY <2>1 DEF kSubset
  <2>3. verdict'.denied = Denies(peer.zone, peer.asked, proof')
    BY <1>4 DEF Prove, Conclude
  <2> QED BY <1>1, <1>2, <1>3, <2>2, <2>3 DEF DenialInv
<1>5. CASE ~Prove
  <2>1. UNCHANGED <<run, proof>>
    <3>1. ~HandshakeStep
      BY <1>1 DEF HandshakeStep, HandshakeProbes, Probes12, Probes13
    <3>2. ~FeatureStep
      BY <1>1 DEF FeatureStep, FeatureKinds, EchoProbes, Ask, Tell
    <3>3. ~QuicStep
      BY <1>1 DEF QuicStep
    <3>4. ~AppStep
      BY <1>1 DEF AppStep, AppKinds, Write, Piece, Ends, Fails
    <3>5. ~NameStep
      BY <1>1 DEF NameStep, Resolve, PolicyChecks
    <3> QED BY <1>5, <3>1, <3>2, <3>3, <3>4, <3>5 DEF Next, vars, DenialStep
  <2> QED BY <1>1, <1>2, <1>3, <2>1 DEF DenialInv, run
<1> QED
  BY <1>4, <1>5

\* A denial says only what is so in the zone whose records it is made of, from any part of
\* them and for every hash order, and all the records prove every absence but of what a
\* wildcard stands for; of a name that the zone delegated away they prove it as well,
\* whatever its own zone has (dnssec._denies_tlsa, dnssec._denies_tlsa_nsec).
THEOREM DenialProven == Spec => []DenialExact
<1>1. DenialInv => DenialExact
  <2> SUFFICES ASSUME DenialInv, pc = "done", probe = "denial" PROVE DenialExact
    BY DEF DenialExact, DeniedMeansAbsent, AbsenceProvable, DelegationsDenied
  <2>1. PICK z \in Zones : peer.zone = z
    BY DEF DenialInv
  <2>2. PICK q \in Names : peer.asked = q /\ Len(q) >= 1
    BY DEF DenialInv
  <2>3. proof \in SUBSET DenialOwners(z) /\ verdict.denied = Denies(z, q, proof)
    BY <2>1, <2>2 DEF DenialInv
  <2>4. DeniedMeansAbsent
    <3>1. Denies(z, q, proof) => ~Answered(z, q)
      BY <2>2, <2>3, DenialSound
    <3> QED BY <2>1, <2>2, <2>3, <3>1 DEF DeniedMeansAbsent
  <2>5. AbsenceProvable
    <3>1. ~z.optout /\ ~Answered(z, q) =>
             \/ Denies(z, q, DenialOwners(z))
             \/ Exists(z, Wild(IF Exists(z, q) THEN q ELSE Closest(z, q)))
      BY <2>2, DenialComplete
    <3> QED BY <2>1, <2>2, <2>3, <3>1 DEF AbsenceProvable
  <2>6. DelegationsDenied
    <3> SUFFICES ASSUME proof = DenialOwners(z), ~z.optout, Elsewhere(z, q) PROVE Denies(z, q, proof)
      BY <2>1, <2>2, <2>3 DEF DelegationsDenied
    <3>1. /\ ~Answered(z, q)
          /\ ~Exists(z, Wild(IF Exists(z, q) THEN q ELSE Closest(z, q)))
      BY DelegatedAway
    <3> QED BY <2>2, <3>1, DenialComplete
  <2> QED BY <2>4, <2>5, <2>6 DEF DenialExact
<1> QED
  BY <1>1, DenialBegins, DenialGoesOn, PTL DEF Spec

-----------------------------------------------------------------------------
(* Types.                                                                   *)

\* The other probes leave the names alone.
NamesRest == probe \notin NameProbes => NameIdle

\* The calls, the queries and the level keep their types: a call is no deeper than
\* _MAX_GLUELESS_DEPTH and has followed fewer than _MAX_REFERRALS referrals.
THEOREM NamesTyped == Spec => []NameTypeOK
<1> DEFINE IInv == ResolverInv /\ PolicyInv /\ NamesRest /\ (probe = "resolve" => level = 0)
<1>1. Init => NamesRest /\ (probe = "resolve" => level = 0)
  BY DEF Init, NamesRest, NameProbes, PolicyChecks, NameInit, NameIdle, Begin
<1>2. NamesRest /\ [Next]_vars => NamesRest'
  <2> SUFFICES ASSUME NamesRest, [Next]_vars, probe' \notin NameProbes PROVE NameIdle'
    BY DEF NamesRest, NameProbes, PolicyChecks
  <2>1. probe' = probe
    BY NameFamily
  <2>2. probe \notin NameProbes
    BY <2>1 DEF NameProbes, PolicyChecks
  <2>3. ~NameStep
    BY <2>2 DEF NameStep, Resolve, NameProbes
  <2>4. UNCHANGED names
    BY <2>3 DEF Next, vars
  <2> QED BY <2>2, <2>4 DEF NamesRest, NameIdle, names
<1>3. (probe = "resolve" => level = 0) /\ [Next]_vars => (probe = "resolve" => level = 0)'
  <2> SUFFICES ASSUME probe = "resolve" => level = 0, [Next]_vars, probe' = "resolve" PROVE level' = 0
    OBVIOUS
  <2>1. probe = "resolve" /\ (NameStep \/ UNCHANGED <<run, names>>)
    BY NameFamily DEF NameProbes
  <2> QED BY <2>1 DEF NameStep, Resolve, PolicyChecks, names
<1>4. IInv => NameTypeOK
  <2> SUFFICES ASSUME IInv PROVE NameTypeOK
    OBVIOUS
  <2>1. CASE probe = "resolve"
    BY <2>1, NameChecksAssumption DEF NameTypeOK, ResolverInv, Calls
  <2>2. CASE probe \in PolicyChecks
    <3>1. /\ peer \in Domains /\ stack = <<>> /\ queries = 0 /\ level \in 0..Len(peer.chain)
      BY <2>2 DEF PolicyInv
    <3>2. Len(peer.chain) \in 0..MaxZones
      BY <3>1, DomainTyped
    <3> QED BY <3>1, <3>2, NameChecksAssumption DEF NameTypeOK
  <2>3. CASE probe \notin NameProbes
    BY <2>3, NameChecksAssumption DEF NamesRest, NameIdle, NameTypeOK
  <2> QED BY <2>1, <2>2, <2>3 DEF NameProbes
<1>5. Init => IInv
  BY <1>1, ResolverInit, PolicyInit
<1>6. IInv /\ [Next]_vars => IInv'
  BY <1>2, <1>3, ResolverStep, PolicyStep
<1> QED
  BY <1>4, <1>5, <1>6, PTL DEF Spec
=============================================================================
