------------------------------- MODULE Denial -------------------------------
(***************************************************************************)
(* The proof that a name has no TLSA record (dnssec.py): NSEC3 over hashed  *)
(* names and NSEC over names in order.  A zone has names below its apex, of *)
(* two labels at most; the records that come are genuine and any part of    *)
(* what the zone has.                                                       *)
(***************************************************************************)
EXTENDS ProbeRun, FiniteSetsExt

CONSTANTS
    Salts,       \* the hash orders tried: <<factor, addend>>
    MaxOwners,   \* Bound of the model: names below the apex that own records
    MaxRecords   \* Bound of the model: denial records of one response

ASSUME DenialAssumption == /\ Salts \subseteq (1..10) \X (0..10) /\ Salts # {}
                           /\ MaxOwners \in Nat /\ MaxRecords \in Nat

VARIABLE proof \* the owners of the records in the response

\* Names from the apex down; a wildcard is a label like any other, the lowest one.
Label   == {"*", "a", "b"}
Rank(l) == CASE l = "*" -> 1 [] l = "a" -> 2 [] l = "b" -> 3
Names   == {<<>>} \cup {<<l>> : l \in Label} \cup {<<l, m>> : l \in Label, m \in {"*", "b"}}
Wild(n) == Append(n, "*")

\* _name_key: the order of RFC 4034 6.1, a name before those below it.
Key(n) == CASE Len(n) = 0 -> 0
            [] Len(n) = 1 -> 4 * Rank(n[1])
            [] Len(n) = 2 -> 4 * Rank(n[1]) + Rank(n[2])

\* _nsec3_hash: another order of the same names, the same for names that are equal.
Index == [n \in Names |-> Cardinality({m \in Names : Key(m) < Key(n)})]
Hash(salt, n) == (salt[1] * Index[n] + salt[2]) % 11

\* _common_suffix: the longest name above both.
Common(n, m) ==
    LET k == CHOOSE i \in 0..2 : /\ i <= Len(n) /\ i <= Len(m)
                                 /\ SubSeq(n, 1, i) = SubSeq(m, 1, i)
                                 /\ \A j \in (i + 1)..2 : ~(/\ j <= Len(n) /\ j <= Len(m)
                                                            /\ SubSeq(n, 1, j) = SubSeq(m, 1, j))
    IN  SubSeq(n, 1, k)

Above(n, m) == Len(n) < Len(m) /\ SubSeq(m, 1, Len(n)) = n

\* A zone: the names that own records, each with a kind, and how it denies the rest.
\* A TLSA record or an alias, other types, or a delegation, below which nothing is.
Kinds == {"tlsa", "other", "delegated"}

ZoneNames(z) == {<<>>} \cup DOMAIN z.owners

\* The names a denial record is made for: NSEC3 also for those that own nothing but
\* have names below; with opt-out none for a delegation.
DenialOwners(z) ==
    IF z.hashed
      THEN {n \in ZoneNames(z) \cup {m \in Names : \E k \in ZoneNames(z) : Above(m, k)} :
              ~(z.optout /\ n \in DOMAIN z.owners /\ z.owners[n] = "delegated")}
      ELSE ZoneNames(z)

Place(z, n) == IF z.hashed THEN Hash(z.salt, n) ELSE Key(n)

\* The next owner in the ring of denial records.
NextOwner(z, n) ==
    LET others == DenialOwners(z) \ {n}
        later  == {m \in others : Place(z, m) > Place(z, n)}
        Least(set) == CHOOSE m \in set : \A k \in set : Place(z, m) <= Place(z, k)
    IN  IF others = {} THEN n ELSE IF later # {} THEN Least(later) ELSE Least(others)

\* What the type bitmap of an owner has.
TypesOf(z, n) == IF n \in DOMAIN z.owners THEN z.owners[n] ELSE "none"

Zones ==
    {z \in [owners : UNION {[S -> Kinds] : S \in {T \in SUBSET (Names \ {<<>>}) : Cardinality(T) <= MaxOwners}},
            hashed : BOOLEAN, optout : BOOLEAN, salt : Salts] :
        /\ \A n, m \in DOMAIN z.owners : Above(n, m) => z.owners[n] # "delegated"
        /\ ~z.hashed => ~z.optout /\ z.salt = CHOOSE s \in Salts : TRUE}

-----------------------------------------------------------------------------
(* The proof.                                                               *)

\* _covers and _covers_name: strictly between an owner and the next, around the end.
Covers(z, owner, target) ==
    LET o == Place(z, owner)
        t == Place(z, target)
        n == Place(z, NextOwner(z, owner))
    IN  IF o < n THEN o < t /\ t < n ELSE t > o \/ t < n

Lacks(z, n) == TypesOf(z, n) # "tlsa"

\* Mutant: the wildcard at the closest encloser is not asked about.
DeniesNsec3_NoWildcard(z, q, owners) ==
    IF q \in owners THEN Lacks(z, q)
    ELSE \E n \in Names : Above(n, q) /\ n \in owners
           /\ \E o \in owners : Covers(z, o, SubSeq(q, 1, Len(n) + 1))

\* _denies_tlsa: no such type at the name, or the closest encloser among the owners, the
\* name one label longer covered, and the wildcard covered.
DeniesNsec3(z, q, owners) ==
    LET enclosers == {n \in Names : Above(n, q) /\ n \in owners}
        closest   == CHOOSE n \in enclosers : \A m \in enclosers : Len(m) <= Len(n)
        Covered(n) == \E o \in owners : Covers(z, o, n)
    IN  IF q \in owners THEN Lacks(z, q)
        ELSE /\ enclosers # {}
             /\ Covered(SubSeq(q, 1, Len(closest) + 1))
             /\ Covered(Wild(closest))

\* _denies_tlsa_nsec: the closest encloser is what a covering record shows to exist.
DeniesNsec(z, q, owners) ==
    LET covering == {o \in owners : Covers(z, o, q)}
        first    == CHOOSE o \in covering : TRUE
        longer(n, m) == IF Len(n) >= Len(m) THEN n ELSE m
        closest  == longer(Common(q, first), Common(q, NextOwner(z, first)))
    IN  IF q \in owners THEN Lacks(z, q)
        ELSE covering # {} /\ \E o \in owners : Covers(z, o, Wild(closest))

Denies(z, q, owners) ==
    owners # {} /\ IF z.hashed THEN DeniesNsec3(z, q, owners) ELSE DeniesNsec(z, q, owners)

-----------------------------------------------------------------------------
(* The question, as it runs.                                                *)

DenialInit ==
    \E z \in Zones, q \in {<<"a">>, <<"a", "b">>, <<"b", "b">>} :
        Begin("denial", [zone |-> z, asked |-> q], "proof") /\ proof = {}

DenialIdle == proof = {}

\* _validate_denial: the response, whatever denial records are in it.
Prove ==
    /\ probe = "denial" /\ pc = "proof"
    /\ \E k \in 1..MaxRecords : proof' \in kSubset(k, DenialOwners(peer.zone))
    /\ Conclude([is |-> "denial", denied |-> Denies(peer.zone, peer.asked, proof')])
    /\ NoFault /\ UNCHANGED <<probe, peer>>

DenialStep == Prove

-----------------------------------------------------------------------------
(* Properties.                                                              *)

DenialTypeOK == proof \subseteq Names

Exists(z, n)  == \E m \in ZoneNames(z) : m = n \/ Above(n, m)
Closest(z, q) == CHOOSE n \in Names : /\ Above(n, q) /\ Exists(z, n)
                                      /\ \A m \in Names : Above(m, q) /\ Exists(z, m) => Len(m) <= Len(n)

\* The name, or the wildcard in its place, has a TLSA record or an alias.
Answered(z, q) == ~Lacks(z, IF Exists(z, q) THEN q ELSE Wild(Closest(z, q)))

\* What is said to be absent has no TLSA record or alias in the zone whose records said
\* so, from whatever part of its denial records the proof was made and however the names
\* are hashed; one that exists through a wildcard counts as present.
DeniedMeansAbsent ==
    pc = "done" /\ probe = "denial" /\ verdict.denied => ~Answered(peer.zone, peer.asked)

\* A response with all the zone's records proves every absence, but under opt-out and
\* where the name owns nothing and a wildcard stands at it or in its place: the code
\* takes every wildcard it cannot cover for one that has the type.
AbsenceProvable ==
    LET z == peer.zone
        q == peer.asked
    IN  pc = "done" /\ probe = "denial" /\ proof = DenialOwners(z) /\ ~z.optout /\ ~Answered(z, q)
          => verdict.denied \/ Exists(z, Wild(IF Exists(z, q) THEN q ELSE Closest(z, q)))

\* The name belongs to another zone, to which this one delegates it.
Elsewhere(z, q) ==
    \E n \in DOMAIN z.owners : z.owners[n] = "delegated" /\ (n = q \/ Above(n, q))

\* And that zone need not be the name's own.  Whatever a delegated zone has, a response
\* with all the records of its parent denies every name in it: the signer need only be an
\* ancestor (_in_bailiwick), and neither the type bitmap of a delegation nor opt-out is
\* looked at.  validate_denial calls what it proves a DANE that is genuinely not
\* configured (dnssec.py 561-563) and its signer the queried name's own zone (599-603);
\* of such names neither is so.
DelegationsDenied ==
    LET z == peer.zone IN
        pc = "done" /\ probe = "denial" /\ proof = DenialOwners(z) /\ ~z.optout
          /\ Elsewhere(z, peer.asked) => verdict.denied
=============================================================================
