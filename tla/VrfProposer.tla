---------------------------- MODULE VrfProposer ----------------------------
(***************************************************************************)
(* The VRF proposer election of PoS consensus                              *)
(* (src/core/src/pos/consensus/liveness/vrf_proposer_election.rs).         *)
(*                                                                         *)
(* A VrfProposer keeps the current round and the proposal candidates       *)
(* received for it, each behind its own Mutex. Callers hand it proposals   *)
(* (receive_proposal_candidate), move it to a new round (next_round) and   *)
(* ask for the block to vote for (choose_proposal_to_vote), the candidate  *)
(* with the smallest VRF output. A block is a record of its round, the     *)
(* VRF output of its proof and its author; the 256-bit output is cut to    *)
(* VrfBits bits, keeping U256::MAX as the all-ones value.                  *)
(*                                                                         *)
(* Each call is one or two steps of a caller thread: the round check and   *)
(* the push of receive_proposal_candidate take the two locks one after the *)
(* other, and so do the round update and the clear of next_round.          *)
(***************************************************************************)
EXTENDS Integers, Sequences, SequencesExt

CONSTANTS
    Threads,        \* callers of the VrfProposer
    Authors,        \* proposers, as model values
    MaxRound,       \* rounds are 0..MaxRound
    VrfBits,        \* width of the VRF output (256 in the code)
    MaxCandidates,  \* receives checked only below this many candidates
    None            \* Option::None

ASSUME VrfBits \in Nat \ {0} /\ MaxRound \in Nat /\ MaxCandidates \in Nat

VARIABLES
    current_round,        \* Mutex<Round>
    proposal_candidates,  \* Mutex<Vec<Block>>
    pc,                   \* where each caller is
    pending,              \* the block a receiving caller is about to push
    vote                  \* what the last choose_proposal_to_vote returned

vars == <<current_round, proposal_candidates, pc, pending, vote>>

Rounds == 0..MaxRound

\* U256::MAX, and PROPOSAL_THRESHOLD, which the code sets to it (line 14).
U256Max == 2^VrfBits - 1
PROPOSAL_THRESHOLD == U256Max

Blocks == [round : Rounds, vrf : 0..U256Max, author : Authors]

-----------------------------------------------------------------------------
(* The choice of the block to vote for                                      *)

\* is_valid_proposal: the VRF output of the proof is at most the threshold.
IsValidProposal(b) == b.vrf <= PROPOSAL_THRESHOLD

\* Mutation of ChooseProposalToVote: <= in place of <, so the last of
\* equal outputs wins.
ChooseProposalToVoteLe(cands) ==
    LET Keep(acc, b) == IF b.vrf <= acc.min THEN [chosen |-> b, min |-> b.vrf]
                                           ELSE acc
    IN FoldLeft(Keep, [chosen |-> None, min |-> U256Max], cands).chosen

\* choose_proposal_to_vote's scan: start from (None, U256::MAX) and keep a
\* block only when its output is strictly below the smallest seen so far.
ChooseProposalToVote(cands) ==
    LET Keep(acc, b) == IF b.vrf < acc.min THEN [chosen |-> b, min |-> b.vrf]
                                           ELSE acc
    IN FoldLeft(Keep, [chosen |-> None, min |-> U256Max], cands).chosen

-----------------------------------------------------------------------------

Init ==
    /\ current_round = 0
    /\ proposal_candidates = <<>>
    /\ pc = [t \in Threads |-> "idle"]
    /\ pending = [t \in Threads |-> None]
    /\ vote = None

\* receive_proposal_candidate, lines 57-59: the proposal is valid and of the
\* round read under current_round's lock, which is released before the push.
\* A proposal that fails the check is returned false and changes nothing.
ReceiveCheck(t, b) ==
    /\ pc[t] = "idle"
    /\ Len(proposal_candidates) < MaxCandidates
    /\ IsValidProposal(b)
    /\ b.round = current_round
    /\ pc' = [pc EXCEPT ![t] = "push"]
    /\ pending' = [pending EXCEPT ![t] = b]
    /\ UNCHANGED <<current_round, proposal_candidates, vote>>

\* Line 60: the push under proposal_candidates' lock; the call returns true.
ReceivePush(t) ==
    /\ pc[t] = "push"
    /\ proposal_candidates' = Append(proposal_candidates, pending[t])
    /\ pc' = [pc EXCEPT ![t] = "idle"]
    /\ pending' = [pending EXCEPT ![t] = None]
    /\ UNCHANGED <<current_round, vote>>

\* next_round(round), line 84. The callers only move the round forward.
NextRoundSet(t, r) ==
    /\ pc[t] = "idle"
    /\ r > current_round
    /\ current_round' = r
    /\ pc' = [pc EXCEPT ![t] = "clear"]
    /\ UNCHANGED <<proposal_candidates, pending, vote>>

\* Mutation of NextRoundClear: the old round's candidates are kept.
NextRoundClearKeeps(t) ==
    /\ pc[t] = "clear"
    /\ UNCHANGED proposal_candidates
    /\ pc' = [pc EXCEPT ![t] = "idle"]
    /\ UNCHANGED <<current_round, pending, vote>>

\* Line 85: the candidates of the old round are dropped.
NextRoundClear(t) ==
    /\ pc[t] = "clear"
    /\ proposal_candidates' = <<>>
    /\ pc' = [pc EXCEPT ![t] = "idle"]
    /\ UNCHANGED <<current_round, pending, vote>>

\* choose_proposal_to_vote, lines 68-81, under proposal_candidates' lock.
ChooseProposal(t) ==
    /\ pc[t] = "idle"
    /\ vote' = ChooseProposalToVote(proposal_candidates)
    /\ UNCHANGED <<current_round, proposal_candidates, pc, pending>>

Next ==
    \E t \in Threads :
        \/ \E b \in Blocks : ReceiveCheck(t, b)
        \/ ReceivePush(t)
        \/ \E r \in Rounds : NextRoundSet(t, r)
        \/ NextRoundClear(t)
        \/ ChooseProposal(t)

Spec == Init /\ [][Next]_vars

-----------------------------------------------------------------------------
(* Properties                                                               *)

\* The candidate the scan of choose_proposal_to_vote keeps, stated without
\* the scan: the first of the candidates whose output is below U256::MAX
\* with no smaller output among them, or None when there is none.
FirstMinimum(cands) ==
    LET below == {i \in DOMAIN cands : cands[i].vrf < U256Max}
        first(i) == \A j \in below : \/ cands[i].vrf < cands[j].vrf
                                     \/ cands[i].vrf = cands[j].vrf /\ i <= j
    IN IF below = {} THEN None ELSE cands[CHOOSE i \in below : first(i)]

\* choose_proposal_to_vote votes for the earliest received of the
\* candidates with the smallest VRF output, skipping one whose output is
\* U256::MAX, whatever the candidates and their order.
VoteIsFirstMinimum ==
    [][\A t \in Threads :
         ChooseProposal(t) => vote' = FirstMinimum(proposal_candidates)]_vars

\* The block choose_proposal_to_vote returns is a proposal of the current
\* round: receive_proposal_candidate only keeps blocks of the round it read,
\* and next_round drops the candidates of the old one.
VoteIsForCurrentRound ==
    [][\A t \in Threads :
         ChooseProposal(t) => vote' = None \/ vote'.round = current_round]_vars

=============================================================================
