------------------------------- MODULE Probes -------------------------------
(***************************************************************************)
(* Every question a scan asks of the network besides the enumeration: one   *)
(* probe of any family runs, to its end, against any peer it may meet, and  *)
(* the network fails it as often as MaxFaults allows.  scanner._scan_address *)
(* calls the probes one after the other, each with connections of its own;  *)
(* what one learns is an input of the next only where a peer says so.       *)
(***************************************************************************)
EXTENDS Handshakes, FeatureProbes, QuicProbe, AppProbes, NameChecks, Denial

vars == <<run, handshake, replies, quic, app, names, proof>>

Init ==
    \/ HandshakeInit /\ FeatureIdle /\ QuicIdle /\ AppIdle /\ NameIdle /\ DenialIdle
    \/ HandshakeIdle /\ FeatureInit /\ QuicIdle /\ AppIdle /\ NameIdle /\ DenialIdle
    \/ HandshakeIdle /\ FeatureIdle /\ QuicInit /\ AppIdle /\ NameIdle /\ DenialIdle
    \/ HandshakeIdle /\ FeatureIdle /\ QuicIdle /\ AppInit /\ NameIdle /\ DenialIdle
    \/ HandshakeIdle /\ FeatureIdle /\ QuicIdle /\ AppIdle /\ NameInit /\ DenialIdle
    \/ HandshakeIdle /\ FeatureIdle /\ QuicIdle /\ AppIdle /\ NameIdle /\ DenialInit

Next ==
    \/ HandshakeStep /\ UNCHANGED <<replies, quic, app, names, proof>>
    \/ FeatureStep   /\ UNCHANGED <<handshake, quic, app, names, proof>>
    \/ QuicStep      /\ UNCHANGED <<handshake, replies, app, names, proof>>
    \/ AppStep       /\ UNCHANGED <<handshake, replies, quic, names, proof>>
    \/ NameStep      /\ UNCHANGED <<handshake, replies, quic, app, proof>>
    \/ DenialStep    /\ UNCHANGED <<handshake, replies, quic, app, names>>

Spec == Init /\ [][Next]_vars

-----------------------------------------------------------------------------
(* Properties.                                                              *)

\* The types of what each family keeps; the bounds in them are the code's own: an
\* address is looked for no deeper than _MAX_GLUELESS_DEPTH and no referral is followed
\* beyond _MAX_REFERRALS (resolver.py).
ProbesTypeOK ==
    /\ faults \in 0..MaxFaults
    /\ HandshakeTypeOK /\ FeatureTypeOK /\ QuicTypeOK /\ AppTypeOK /\ NameTypeOK /\ DenialTypeOK

\* The two ends of a connection stay in step, and a server that breaks off does it over
\* a certificate the client did not show, never over what the client computed.
HandshakesInStep == EndsInStep /\ RefusedOverCertificateOnly

\* What a probe concludes about a server, after whatever got lost on the way: each part
\* says of its probes which statements stay true and which a loss can make false.
VerdictsTrue ==
    HandshakeVerdictsTrue /\ FeatureVerdictsTrue /\ OneFailureAccusesNobody /\ AppVerdictsTrue

\* The proof that a name has no TLSA record is sound for the zone whose records make it,
\* complete up to the wildcards, and made of names that are not that zone's as well.
DenialExact == DeniedMeansAbsent /\ AbsenceProvable /\ DelegationsDenied
=============================================================================
