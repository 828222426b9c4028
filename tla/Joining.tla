------------------------------ MODULE Joining -------------------------------
(***************************************************************************)
(* The tunnel and the agents that join it: Tunnel, and beside it Agent.    *)
(* Each has its own view of the nodes table.                               *)
(***************************************************************************)
EXTENDS Tunnel

CONSTANTS Agents, Editors, Tokens, Services, Ports, Hosts, MaxDrawn, MaxChanges

VARIABLES token, row, service, ready, agent, call, edit, pairs, changes, born, touched, revoked,
          outdated

\* The requests of agents are alike, as the handlers of Tunnel are.
A == INSTANCE Agent WITH Calls <- Handlers, drawn <- pairs

ASSUME AgentAssumption == A!AgentAssumption

agentOnly == <<token, row, service, ready, agent, call, edit, pairs, changes, born, touched, revoked,
               outdated>>

\* Agent: a single-use token enrols one node and is spent by nothing else
\* (handleEnrollNode, EnrollWithToken).
EnrolledOnce == A!EnrolledOnce

\* Agent: an agent and its hub agree on the keys of the node, and its listeners
\* are those of the last answer (provisioner.step, UpdateHeartbeat, reconcile).
AgentInStep == A!AgentMatchesHub /\ A!ForwardsAsTold
=============================================================================
