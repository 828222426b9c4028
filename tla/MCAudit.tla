------------------------------ MODULE MCAudit ------------------------------
(***************************************************************************)
(* Model-checking instance of the audit log, the webhooks and the stored   *)
(* secrets.  Each behaviour exercises one and leaves the others alone.     *)
(***************************************************************************)
EXTENDS Keeping, TLC

VARIABLE part                                            \* the part exercised

mcVars == <<part, vars, hookVars, secretVars>>

\* A behaviour ends with its first verification: the next one would start from
\* the same values whether or not there was one before.
ChainScope == ver.pc \in {"idle", "scan"}

\* REQUIRE_MFA_FOR_ADMINS is the same at every start.
SecretsScope == starts > 0 => mfaEnv' = mfaEnv

\* The parts left alone start in one of their initial states.
MCInit ==
    /\ part \in {"chain", "webhooks", "secrets"}
    /\ Init /\ W!Init /\ S!Init
    /\ part # "webhooks" => keys = CHOOSE k \in KeyLists : TRUE
    /\ part # "chain" => driver = CHOOSE d \in Drivers : TRUE
    /\ part # "secrets" => listed = (CHOOSE k \in KeyLists : TRUE) /\ mfaEnv /\ settings = None

MCNext ==
    \/ part = "chain" /\ Next /\ ChainScope /\ UNCHANGED <<part, hookVars, secretVars>>
    \/ part = "webhooks" /\ W!Next /\ UNCHANGED <<part, vars, secretVars>>
    \/ part = "secrets" /\ S!Next /\ SecretsScope /\ UNCHANGED <<part, vars, hookVars>>
    \/ (part = "chain" => ~ChainScope) /\ UNCHANGED mcVars    \* bounds are no deadlock

MCSpec == MCInit /\ [][MCNext]_mcVars

MCKeyLists == {<<"k1">>, <<"k2">>, <<"k2", "k1">>}
MCSymmetry == Permutations(Actors)
=============================================================================
