----------------------------- MODULE MCToolHost -----------------------------
(***************************************************************************)
(* Instances of ToolHost for TLC: cards with each kind of expiry, of       *)
(* capability collection and of version, and a policy with a trigger of    *)
(* each kind.                                                              *)
(***************************************************************************)
EXTENDS ToolHost, TLC

CONSTANTS c1, ann

MCSegment == {"carapace", "read", "delete", "database", "email", "*"}
AnyAction == <<"carapace", "*">>
AnyRead == <<"carapace", "read", "*">>
AnyDelete == <<"carapace", "delete", "*">>
ReadDatabase == <<"carapace", "read", "database">>
ReadEmail == <<"carapace", "read", "email">>
DeleteEmail == <<"carapace", "delete", "email">>

MCConcrete == {ReadDatabase, ReadEmail, DeleteEmail}

Listed(ids) == [id \in ids |-> "on"]

Card(form, capabilities, expires_at, version, framework) ==
  [form |-> form, capabilities |-> capabilities, expires_at |-> expires_at,
   card_version |-> version, framework |-> framework]

OnlyEmail == (ReadEmail :> "on") @@ (ReadDatabase :> "false")

MCCards ==
  { Card("object", Listed({AnyAction}), 2, 2, {"other"}),
    Card("dict", Listed({AnyRead, DeleteEmail}), 1, Never, {"langchain"}),
    Card("dict", OnlyEmail, 1, 2, {}),
    Card("dict", OnlyEmail, Never, 2, {}),
    Card("object", OnlyEmail, Garbage, 2, {}) }

Profile(required, forbidden, expiry, ttl, version) ==
  [required_capabilities |-> required, forbidden_capabilities |-> forbidden,
   require_expiry |-> expiry, max_ttl_hours |-> ttl, min_version |-> version,
   require_attestation_from |-> {}, require_attestation_types |-> {"audit"},
   max_delegation_depth |-> {2}, require_delegation_ttl_hours |-> {1},
   allowed_frameworks |-> {}]

\* One like the built-in profiles, one that asks for little.
MCProfiles ==
  { Profile({}, {ReadDatabase}, TRUE, {1}, {}),
    [Profile({ReadEmail}, {}, FALSE, {1}, {2}) EXCEPT
       !.require_attestation_from = {"lab"},
       !.allowed_frameworks = {{"langchain", "other"}}] }

Given(depth, ttl, by) ==
  [attestations |-> {[attester_id |-> by, type |-> "audit"]}, depth |-> depth,
   ttl |-> ttl]

MCGivens ==
  { Given({}, {}, "lab"), Given({2}, {1}, "lab"), Given({3}, {2}, "other") }

MCGrants == { {ReadEmail}, {AnyRead, DeleteEmail} }

Trigger(capability, combination) ==
  [capability |-> capability, combination |-> combination, predicate |-> {}]

\* The last has an empty combination, which only the port heeds.
MCTriggers ==
  << Trigger({AnyDelete}, {}), Trigger({}, {{ReadDatabase, ReadEmail}}),
     Trigger({}, {{}}) >>

MCRules ==
  [read |-> {ReadEmail}, browse |-> {AnyRead}, tidy |-> {AnyAction},
   either |-> {ReadEmail, DeleteEmail}]
MCAnyOf == {"either"}

Entry(status, score) == [status |-> status, clawmark_score |-> score]

\* A tool that is suspended later, one that is revoked.
MCCatalogs ==
  << [mailer |-> Entry("active", 3), eraser |-> Entry("active", 5)],
     [mailer |-> Entry("suspended", 3), eraser |-> Entry("active", 5)] >>
MCTool == {"mailer", "eraser", "unknown"}
MCRevoked == {"eraser"}
AlwaysOk == {"ok"}
OneCall == {c1}
OneOperator == {ann}
=============================================================================
