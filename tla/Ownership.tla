----------------------------- MODULE Ownership -----------------------------
(***************************************************************************)
(* packages/astroport/src/common.rs: the handover of a contract in two     *)
(* steps.  The owner proposes, the proposed account claims in time.  The   *)
(* contracts share this code; the copies in ownership.rs of astroport_farm *)
(* and lp_staking leave out the bound on expires_in, which is a            *)
(* MAX_PROPOSAL_TTL no Expiries exceed.                                    *)
(***************************************************************************)
EXTENDS Naturals

CONSTANTS
    Accounts,           \* accounts that may own the contract
    MAX_PROPOSAL_TTL,   \* longest life of a proposal (14 days)
    Expiries,           \* values of expires_in
    MaxTime             \* bound: the clock

VARIABLES
    owner,      \* Config.owner
    proposal,   \* OWNERSHIP_PROPOSAL; `by' is history: who made it
    now         \* env.block.time

ownership == <<owner, proposal, now>>

NoProposal == [exists |-> FALSE]

Proposal == [exists: {TRUE}, owner: Accounts, ttl: Nat, by: Accounts]

TypeOK ==
    /\ owner \in Accounts
    /\ proposal \in Proposal \cup {NoProposal}
    /\ now \in Nat

Init ==
    /\ owner \in Accounts
    /\ proposal = NoProposal
    /\ now = 0

\* propose_new_owner; it replaces a proposal that stands.
ProposeNewOwner(sender, new_owner, expires_in) ==
    /\ sender = owner
    /\ new_owner # owner
    /\ expires_in <= MAX_PROPOSAL_TTL
    /\ proposal' = [exists |-> TRUE, owner |-> new_owner, ttl |-> now + expires_in,
                    by |-> sender]
    /\ UNCHANGED <<owner, now>>

\* drop_ownership_proposal; there may be none.
DropOwnershipProposal(sender) ==
    /\ sender = owner
    /\ proposal' = NoProposal
    /\ UNCHANGED <<owner, now>>

\* A faulty variant: the proposal outlives the claim.
ClaimOwnershipKeep(sender) ==
    /\ proposal.exists
    /\ sender = proposal.owner
    /\ now <= proposal.ttl
    /\ owner' = proposal.owner
    /\ UNCHANGED <<proposal, now>>

\* claim_ownership, with the callback that writes Config.owner.
ClaimOwnership(sender) ==
    /\ proposal.exists
    /\ sender = proposal.owner
    /\ now <= proposal.ttl
    /\ owner' = proposal.owner
    /\ proposal' = NoProposal
    /\ UNCHANGED now

Tick ==
    /\ now < MaxTime
    /\ now' = now + 1
    /\ UNCHANGED <<owner, proposal>>

Next ==
    \/ \E a, b \in Accounts, e \in Expiries : ProposeNewOwner(a, b, e)
    \/ \E a \in Accounts : DropOwnershipProposal(a) \/ ClaimOwnership(a)
    \/ Tick

Spec == Init /\ [][Next]_ownership

\* A proposal that stands was made by the account that owns the contract now
\* and names another one: what an owner offered does not outlive his
\* ownership, however claims, replacements and expiries follow each other.
ProposalIsOwners ==
    proposal.exists => proposal.by = owner /\ proposal.owner # owner
=============================================================================
