----------------------------- MODULE MCIdentity -----------------------------
(***************************************************************************)
(* Model-checking instance of Identity.  Its parts share no state, so each *)
(* behaviour exercises one of them; the variables of the others are None,  *)
(* or for Sessions its initial values.                                     *)
(***************************************************************************)
EXTENDS Identity, TLC

mcVars == <<part, vars, mfaVars, tokenVars>>

Only(p, vs) == part = p /\ UNCHANGED <<part, vs>>

mfaIdle ==
    mRow = None /\ batch = None /\ now = None /\ challenge = None /\ mReq = None /\
    logins = None /\ sessionsOf = None

tokenIdle ==
    active = None /\ token = None /\ glass = None /\ tReq = None /\ starts = None /\
    withdrawn = None /\ consumed = None

MCInit ==
    /\ part \in {"sessions", "mfa", "tokens"}
    /\ Init
    /\ IF part = "mfa" THEN M!Init ELSE mfaIdle
    /\ IF part = "tokens" THEN T!Init ELSE tokenIdle

MCNext ==
    \/ Only("sessions", <<mfaVars, tokenVars>>) /\ Next
    \/ Only("mfa", <<vars, tokenVars>>) /\ M!Next
    \/ Only("tokens", <<vars, mfaVars>>) /\ T!Next
    \/ part = "tokens" /\ UNCHANGED mcVars       \* bounds are no deadlock

MCSpec == MCInit /\ [][MCNext]_mcVars

\* Handlers, sessions and tokens are alike; in the configuration challenges
\* are the same model values as sessions, so they are permuted too.
MCSymmetry == Permutations(Requests) \union Permutations(SessionIds)
                 \union Permutations(Tokens)
=============================================================================
