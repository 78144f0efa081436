---------------------------- MODULE AdditiveApply ----------------------------
(***************************************************************************)
(* What `shoulda github apply` of one sealed plan promises, without        *)
(* sessions, reads, receipts or GitHub's replacing mutation: the account   *)
(* takes the plan's additions one after another, in the sealed order and   *)
(* each of them once, nothing else about it changes, and the plan is       *)
(* reported complete only when the last addition is in place.              *)
(*                                                                         *)
(* GitHubApply implements this when the Lists query is consistent, no      *)
(* request is executed late and the owner stays away, whatever fails and   *)
(* wherever a session dies (ImplementsAdditive there, checked by the run   *)
(* apply_consistent and proved as ExecutorIsAdditive).                     *)
(***************************************************************************)
EXTENDS ApplyPlan

CONSTANT Plan

VARIABLES account,   \* the account
          position,  \* how many of the plan's additions it has
          reported   \* is the plan reported complete?

Added(op) ==
    \/ /\ op.kind = "create-list"
       /\ \E l \in ListIds :
            /\ account.lists[l].status = "unborn"
            /\ account' = [account EXCEPT !.lists[l] =
                  [status |-> "live", name |-> op.slug,
                   conforming |-> TRUE, members |-> {}]]
    \/ /\ op.kind = "star-repository"
       /\ account' = [account EXCEPT !.starred = @ \cup {op.repo}]
    \/ /\ op.kind = "add-membership"
       /\ \E l \in Named(account.lists, op.slug) :
            account' = [account EXCEPT !.lists[l].members = @ \cup {op.repo}]

Perform ==
    /\ position < Len(Plan.ops)
    /\ Added(Plan.ops[position + 1])
    /\ position' = position + 1
    /\ UNCHANGED reported

Report ==
    /\ position = Len(Plan.ops)
    /\ reported' = TRUE
    /\ UNCHANGED <<account, position>>

Init == account = Plan.baseline /\ position = 0 /\ reported = FALSE

Next == Perform \/ Report

Spec == Init /\ [][Next]_<<account, position, reported>>
=============================================================================
