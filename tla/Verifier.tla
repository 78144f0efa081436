------------------------------ MODULE Verifier ------------------------------
(***************************************************************************)
(* `shoulda github verify` (admin_services.verified): an independent       *)
(* reread of a plan's target, reported as one postcondition after another. *)
(*                                                                         *)
(* A probe of the account tells whether it can be read at all and whose it *)
(* is ("none" when the probe did not get that far; a usable probe always   *)
(* has an account).  A readback returns the account's state, under the     *)
(* account's node ID or another one, or fails, for want of an answer or    *)
(* because pages belong to different accounts.                             *)
(***************************************************************************)
EXTENDS ApplyPlan

Probes == [usable : {FALSE}, account : {"none", "target", "other"}]
          \cup [usable : {TRUE}, account : {"target", "other"}]

Readbacks == {"read", "readOther", "error", "identityError"}

\* Only a usable probe of the target is followed by a readback.
Target == [usable |-> TRUE, account |-> "target"]
Readings == {r \in [probe : Probes, readback : Readbacks] :
                r.probe # Target => r.readback = "error"}

Condition(kind, subject, state) ==
    [kind |-> kind, subject |-> subject, state |-> state]

Capability(state) == Condition("capability", <<>>, state)
Identity(state) == Condition("target-identity", <<>>, state)

Found(holds) == IF holds THEN "verified" ELSE "mismatch"

-----------------------------------------------------------------------------
(* What a plan promises.                                                   *)

Desired(plan) ==
    {pair \in Slugs \X Repos : pair[1] \in plan.desired[pair[2]]}

Preserved(plan) ==
    {pair \in Repos \X ListIds :
        pair[2] \in MembershipsOf(pair[1], plan.baseline.lists)}

\* Only where TargetsResolve: _target_lists raises otherwise, and verified()
\* then reports the whole plan as unavailable.
VerifyPostconditions(plan, readback, current) ==
    {Identity(Found(readback = "read")),
     Condition("target-state-integrity", <<>>, Found(AllowedProgress(plan, current)))}
    \cup {Condition("public-list", <<slug>>, Found(Named(current.lists, slug) # {})) :
            slug \in Slugs}
    \cup {Condition("star", <<repo>>, Found(repo \in current.starred)) : repo \in Repos}
    \cup {Condition("membership", pair,
                    Found(IsMember(pair[2], pair[1], current.lists))) :
            pair \in Desired(plan)}
    \cup {Condition("preserved-membership", pair,
                    Found(pair[2] \in MembershipsOf(pair[1], current.lists))) :
            pair \in Preserved(plan)}

\* Mutant: what was to be preserved is left out when nothing can be read.
UnavailableWithoutPreserved(plan) ==
    {Condition("target-state-integrity", <<>>, "unavailable")}
    \cup {Condition("public-list", <<slug>>, "unavailable") : slug \in Slugs}
    \cup {Condition("star", <<repo>>, "unavailable") : repo \in Repos}
    \cup {Condition("membership", pair, "unavailable") : pair \in Desired(plan)}

UnavailablePostconditions(plan) ==
    {Condition("target-state-integrity", <<>>, "unavailable")}
    \cup {Condition("public-list", <<slug>>, "unavailable") : slug \in Slugs}
    \cup {Condition("star", <<repo>>, "unavailable") : repo \in Repos}
    \cup {Condition("membership", pair, "unavailable") : pair \in Desired(plan)}
    \cup {Condition("preserved-membership", pair, "unavailable") :
            pair \in Preserved(plan)}

-----------------------------------------------------------------------------
(* The four ways verified() ends.                                          *)

ProbeUnusable(plan, account) ==
    {Capability("unavailable"),
     Identity(CASE account = "none" -> "unavailable"
                [] account = "target" -> "verified"
                [] account = "other" -> "mismatch")}
    \cup UnavailablePostconditions(plan)

ProbeElsewhere(plan) ==
    {Capability("verified"), Identity("mismatch")} \cup UnavailablePostconditions(plan)

ReadbackFailed(plan, readback) ==
    {Capability("verified"), Identity(Found(readback # "identityError"))}
    \cup UnavailablePostconditions(plan)

ReadBack(plan, readback, current) ==
    {Capability("verified")} \cup VerifyPostconditions(plan, readback, current)

Resolved(reading, current) ==
    reading.readback \in {"read", "readOther"} /\ TargetsResolve(current.lists)

\* The postconditions of the verify receipt.
Conditions(plan, reading, current) ==
    CASE ~reading.probe.usable -> ProbeUnusable(plan, reading.probe.account)
      [] reading.probe.usable /\ reading.probe.account = "other" -> ProbeElsewhere(plan)
      [] reading.probe = Target /\ ~Resolved(reading, current) ->
            ReadbackFailed(plan, reading.readback)
      [] OTHER -> ReadBack(plan, reading.readback, current)

States(conditions) == {condition.state : condition \in conditions}

\* Mutant: what could not be read hides what was found wrong.
StatusUnavailableFirst(conditions) ==
    IF "unavailable" \in States(conditions) THEN "partial"
    ELSE IF "mismatch" \in States(conditions) THEN "failed"
    ELSE "verified"

\* _verify_status
Status(conditions) ==
    IF "mismatch" \in States(conditions) THEN "failed"
    ELSE IF "unavailable" \in States(conditions) THEN "partial"
    ELSE "verified"

-----------------------------------------------------------------------------
\* Whatever could be read, a receipt lists the same promises of the plan, each
\* once: the two enumerations of github_apply.py agree, and none of the four
\* ends of verified() drops a promise or claims one twice.
SamePromises(plan, current) ==
    \A reading \in Readings :
        LET conditions == Conditions(plan, reading, current)
            promises == {[kind |-> c.kind, subject |-> c.subject] : c \in conditions}
        IN  /\ \A c, d \in conditions :
                c.kind = d.kind /\ c.subject = d.subject => c = d
            /\ promises = {[kind |-> c.kind, subject |-> c.subject] :
                            c \in ProbeElsewhere(plan)}

\* "verified" is said exactly after the right account was read completely and
\* keeps every promise, "failed" exactly when another account answered or a
\* promise was seen broken; everything else is "partial".
HonestVerdict(plan, current) ==
    \A reading \in Readings :
        LET status == Status(Conditions(plan, reading, current))
            target == reading.probe = Target
            seen == target /\ Resolved(reading, current)
            elsewhere == \/ reading.probe.account = "other"
                         \/ target /\ reading.readback = "identityError"
                         \/ seen /\ reading.readback = "readOther"
        IN  /\ status = "verified" <=>
                   seen /\ ~elsewhere /\ Postconditions(plan, current)
            /\ status = "failed" <=>
                   elsewhere \/ (seen /\ ~Postconditions(plan, current))
=============================================================================
