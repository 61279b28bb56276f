------------------------------- MODULE Notary -------------------------------
(***************************************************************************)
(* What anchoring promises (D31): the root of a run is settled once, and   *)
(* whoever is told of it, by a run_anchor row, is told that root.          *)
(*                                                                         *)
(* Module Anchor, where racing invocations, a chain that loses and reorders*)
(* transactions and a database are involved, implements this.              *)
(***************************************************************************)
CONSTANTS
    Runs,
    Unset       \* the root of a run that has none

VARIABLES
    root,       \* root[r]: the settled root of run r
    attested    \* the attestations given, [run, root]

NotaryInit ==
    /\ root = [r \in Runs |-> Unset]
    /\ attested = {}

\* The root of a run that has none is settled.
Settle ==
    /\ \E r \in Runs :
          /\ root[r] = Unset /\ root'[r] # Unset
          /\ root' = [root EXCEPT ![r] = root'[r]]
    /\ UNCHANGED attested

\* One more attestation is given, of a root that is settled.
Attest ==
    /\ \E a \in attested' :
          /\ attested' = attested \cup {a}
          /\ root[a.run] = a.root /\ a.root # Unset
    /\ UNCHANGED root

NotaryNext == Settle \/ Attest

NotarySpec == NotaryInit /\ [][NotaryNext]_<<root, attested>>
=============================================================================
