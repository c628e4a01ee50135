------------------------------ MODULE MCRaft ------------------------------
(***************************************************************************)
(* Model-checking definitions for Raft: symmetry and views.                *)
(*                                                                         *)
(* A view leaves out what can no longer influence a behaviour, so that TLC *)
(* takes states that differ in it only once.  A RequestVote call to a peer *)
(* that has a later term, or has given its vote of the term to another,    *)
(* changes nothing there; nor does an AppendEntries call to a peer with a  *)
(* later term; they matter only while the sender still reads the reply.    *)
(* Replies that are not taken into account and the indices of a peer that  *)
(* is no leader, which BeginLeader sets anew, do not matter either.        *)
(***************************************************************************)
EXTENDS Raft, TLC

Symmetry == Permutations(Candidates) \cup Permutations(Server \ Candidates)
              \cup Permutations(Command)

LiveVoteCalls ==
  {m \in voteCalls :
     \/ routine[m.from] = "candidate" /\ ballot[m.from] = m.term
     \/ m.term > currentTerm[m.to]
     \/ m.term = currentTerm[m.to] /\ votedFor[m.to] \in {NoVote, m.from}}

LiveRequests ==
  {m \in requests : m.term >= currentTerm[m.to] \/ m \in awaiting[m.from]}

LiveVoteReplies ==
  [i \in Server |-> {r \in voteReplies[i] : r.granted \/ r.term > currentTerm[i]}]

LiveReplies ==
  [i \in Server |-> {r \in replies[i] :
     \/ r.term > currentTerm[i]
     \/ r.success /\ r.sent # 0
     \/ ~r.success /\ r.next # -1}]

LiveIndex(index) ==
  [i \in Server |-> IF routine[i] \in {"enter", "wait"} \/ status[i] = "leader"
                    THEN index[i] ELSE <<>>]

LogView ==
  <<termVars, log, persisted, applyVars, roleVars, ballot, granted, crashes, awaiting,
    LiveIndex(nextIndex), LiveIndex(matchIndex), LiveVoteCalls, LiveVoteReplies,
    LiveRequests, LiveReplies>>

ElectionView == <<LogView, histVars>>
=============================================================================
