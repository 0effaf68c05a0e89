--------------------------- MODULE ToolHost_proofs ---------------------------
(***************************************************************************)
(* The tool host, for any cards, profiles, policies, triggers, catalogs    *)
(* and number of tool calls.                                               *)
(***************************************************************************)
EXTENDS ToolHost, Capabilities_proofs, FiniteSetTheorems, TLAPS

(* What is known of a card once it has been admitted under a profile.      *)
AdmissionSound ==
  admitted # Never =>
    /\ \A c \in profile.forbidden_capabilities : ~has_capability(card, c)
    /\ profile.require_expiry =>
         /\ card.expires_at \in Nat
         /\ \A h \in profile.max_ttl_hours : card.expires_at <= admitted + h

(* What the host has found out of the call it is about to make.            *)
CallSound ==
  /\ call # NoCall => admitted # Never /\ receipts[call.id] = Null
  /\ call.at \notin {"idle", "gated"} /\ card.expires_at \in Nat =>
       call.enforced <= card.expires_at
  /\ call.at = "cleared" =>
       \A i \in DOMAIN Triggers : ~matches(Triggers[i], Rules[call.action])

(* Of the last call: the agent was admitted and its card has what the call *)
(* exercised.                                                              *)
DoneSound ==
  \A x \in done.caps : admitted # Never /\ has_capability(card, x)

(* A fetch brings a version that was served since it was made, and a 304   *)
(* answer says that the snapshot is one.                                   *)
CatalogSound ==
  /\ local.etag = local.state
  /\ fetch.at = "asked" => fetch.etag = local.etag /\ server \in fetch.since
  /\ fetch.at = "answered" =>
       /\ fetch.version \in fetch.since
       /\ fetch.status = 304 => fetch.version = local.state
  /\ GatesReadServed

(* A receipt is made once, by its agent, and is what is posted and stored. *)
ReceiptsSound ==
  /\ \A c \in ToolCall :
       \/ receipts[c] = Null
       \/ \E status \in Outcomes, key \in {AgentKey, Null} :
            receipts[c] = create_receipt(c, status, key)
  /\ \A p \in sent :
       p.call \in ToolCall /\ p.receipt # Null /\ p.receipt = receipts[p.call]
  /\ \A row \in rows :
       row.call \in ToolCall /\ row # Null /\ row = receipts[row.call]
  /\ \A c \in acked : receipts[c] \in rows

HostTypeOK ==
  /\ clock \in 0 .. MaxClock
  /\ card \in Cards /\ profile \in Profiles
  /\ admitted \in 0 .. clock \cup {Never}
  /\ call \in CallState
  /\ request \in [triggered_by : DOMAIN Triggers \cup {NoTrigger},
                  status : {"pending", "approved", "denied"},
                  resolved_by : SUBSET Operator]
  /\ done \in [caps : SUBSET Concrete, approved : BOOLEAN]

HostInd ==
  /\ HostTypeOK
  /\ AdmissionSound
  /\ CallSound
  /\ DoneSound
  /\ NoTriggerEvaded

CatalogInd == CatalogTypeOK /\ CatalogSound

ReceiptsInd == ReceiptsTypeOK /\ ReceiptsSound

IndInv == HostInd /\ CatalogInd /\ ReceiptsInd

-----------------------------------------------------------------------------
(***************************************************************************)
(* The operators the host calls.                                           *)
(***************************************************************************)
(* check_expiry answers "expired" of a time that has passed, "no_expiry"   *)
(* of what is no time.                                                     *)
LEMMA ExpiryAnswers ==
  ASSUME NEW raw \in RawExpiry, NEW now \in Int
  PROVE  /\ is_expired(raw, now) <=> raw \in Nat /\ now > raw
         /\ check_expiry(raw, now) = "no_expiry" <=> raw \in {Never, Garbage}
<1>1. CASE raw \in {Never, Garbage}
  BY <1>1, ExpiryAssumption DEF check_expiry, is_expired, parse_expires_at
<1>2. CASE raw \in Nat
  BY <1>2, ExpiryAssumption DEF check_expiry, is_expired, parse_expires_at
<1>3. QED
  BY <1>1, <1>2 DEF RawExpiry

(* A card's ids and a token's capabilities are identifiers.                *)
LEMMA HeldTypes ==
  ASSUME card \in Cards, NEW token \in Token
  PROVE  /\ CapabilityIds(card) \in SUBSET Capability
         /\ Held(token) \in SUBSET Capability
         /\ token # {} => ValidSubset(Held(token), CapabilityIds(card))
<1>1. CapabilityIds(card) \in SUBSET Capability
  BY CardAssumption DEF CapabilityIds
<1>2. CASE token = {}
  BY <1>1, <1>2 DEF Held
<1>3. ASSUME NEW t \in Tokens, token = {t}
      PROVE  /\ Held(token) \in SUBSET Capability
             /\ ValidSubset(Held(token), CapabilityIds(card))
  <2>1. t.caps \in Grants /\ ValidSubset(t.caps, CapabilityIds(card))
    BY DEF Tokens
  <2>2. Held(token) = t.caps
    BY <1>3 DEF Held
  <2>3. QED
    BY <2>1, <2>2, PolicyAssumption
<1>4. QED
  BY <1>1, <1>2, <1>3 DEF Token

(* What is exercised, on the card or on a token, the card itself has.      *)
LEMMA ExercisedIsHeld ==
  ASSUME card \in Cards, call.token \in Token, NEW x \in Exercised
  PROVE  has_capability(card, x)
<1>1. x \in Capability /\ ~IsWildcard(x) /\ HasCapability(Held(call.token), x)
  BY HostAssumption DEF Exercised
<1>2. CASE call.token = {}
  BY <1>1, <1>2 DEF Held, has_capability
<1>3. CASE call.token # {}
  BY <1>1, <1>3, HeldTypes, ConcreteEnforcementMonotone DEF has_capability
<1>4. QED
  BY <1>2, <1>3

(* Two identifiers that stand for the same concrete one: one covers the    *)
(* other, because both are cut from it.                                    *)
LEMMA Comparable ==
  ASSUME NEW a \in Capability, NEW b \in Capability, NEW x \in Capability,
         ~IsWildcard(x), HasCapability({a}, x), HasCapability({b}, x)
  PROVE  Touches(a, b)
<1>1. Covers(a, x) /\ Covers(b, x)
  BY DEF HasCapability, Covers
<1>2. CASE a = x \/ b = x
  BY <1>1, <1>2 DEF Touches
<1>3. CASE a # x /\ b # x
  <2>1. /\ IsWildcard(a) /\ UnderPrefix(x, a)
        /\ IsWildcard(b) /\ UnderPrefix(x, b)
    BY <1>1, <1>3 DEF Covers
  <2>2. Len(a) \in Nat /\ Len(b) \in Nat
    BY DEF Capability
  <2>3. CASE Len(a) <= Len(b)
    <3>1. UnderPrefix(b, a)
      BY <2>1, <2>2, <2>3 DEF UnderPrefix
    <3>2. QED
      BY <2>1, <3>1 DEF Touches, Covers
  <2>4. CASE Len(b) <= Len(a)
    <3>1. UnderPrefix(a, b)
      BY <2>1, <2>2, <2>4 DEF UnderPrefix
    <3>2. QED
      BY <2>1, <3>1 DEF Touches, Covers
  <2>5. QED
    BY <2>2, <2>3, <2>4
<1>4. QED
  BY <1>2, <1>3

(* First of a set of positions is one of them, and none only of no set.    *)
LEMMA FirstIsOne ==
  ASSUME NEW M \in SUBSET DOMAIN Triggers
  PROVE  /\ First(M) \in M \cup {NoTrigger}
         /\ First(M) = NoTrigger => M = {}
<1>1. M \in SUBSET Nat /\ NoTrigger \notin M
  BY PolicyAssumption DEF NoTrigger
<1>2. CASE M = {}
  BY <1>2 DEF First
<1>3. CASE M # {}
  BY <1>1, <1>3, LeastElement DEF First
<1>4. QED
  BY <1>2, <1>3

(* What either port lets through matches no trigger.                       *)
LEMMA ClearedMatchesNone ==
  ASSUME NEW requested,
         NEW i \in {check_escalation(Triggers, requested),
                    checkEscalation(Triggers, requested)}
  PROVE  /\ i \in DOMAIN Triggers \cup {NoTrigger}
         /\ i = NoTrigger =>
              \A j \in DOMAIN Triggers : ~matches(Triggers[j], requested)
<1>1. check_all_escalations(Triggers, requested)
        \subseteq checkAllEscalations(Triggers, requested)
  BY DEF check_all_escalations, checkAllEscalations, matches, triggerMatches
<1>2. /\ check_all_escalations(Triggers, requested) \subseteq DOMAIN Triggers
      /\ checkAllEscalations(Triggers, requested) \subseteq DOMAIN Triggers
  BY DEF check_all_escalations, checkAllEscalations
<1>3. i = NoTrigger => check_all_escalations(Triggers, requested) = {}
  BY <1>1, <1>2, FirstIsOne DEF check_escalation, checkEscalation
<1>4. QED
  BY <1>2, <1>3, FirstIsOne
     DEF check_escalation, checkEscalation, check_all_escalations

(* A call that exercises what a trigger names makes the trigger match what *)
(* its action requires.                                                    *)
LEMMA ExercisedMatches ==
  ASSUME call.action \in DOMAIN Rules, NEW i \in DOMAIN Triggers,
         LET Exercises(cap) == \E x \in Exercised : HasCapability({cap}, x) IN
         \/ \E cap \in Triggers[i].capability : Exercises(cap)
         \/ \E combination \in Triggers[i].combination :
              combination # {} /\ \A cap \in combination : Exercises(cap)
  PROVE  matches(Triggers[i], Rules[call.action])
<1>1. /\ Rules[call.action] \in SUBSET Capability
      /\ Triggers[i].capability \in SUBSET Capability
      /\ Triggers[i].combination \in SUBSET SUBSET Capability
  <2> DEFINE Trigger == [capability : SUBSET Capability,
                         combination : SUBSET SUBSET Capability,
                         predicate : SUBSET SUBSET Capability]
  <2>1. Triggers \in Seq(Trigger)
    BY PolicyAssumption
  <2>2. Triggers[i] \in Trigger
    <3> HIDE DEF Trigger
    <3>1. QED
      BY <2>1
  <2>3. Rules[call.action] \in SUBSET Capability
    BY PolicyAssumption
  <2>4. QED
    BY <2>2, <2>3
<1>2. ASSUME NEW cap \in Capability, NEW x \in Exercised, HasCapability({cap}, x)
      PROVE  \E req \in Rules[call.action] : Touches(req, cap)
  <2>1. /\ x \in Capability /\ ~IsWildcard(x)
        /\ HasCapability(Rules[call.action], x)
    BY HostAssumption DEF Exercised
  <2>2. PICK req \in Rules[call.action] : HasCapability({req}, x)
    BY <2>1 DEF HasCapability
  <2>3. QED
    BY <1>1, <1>2, <2>1, <2>2, Comparable
<1>3. QED
  BY <1>1, <1>2 DEF matches, AllTouched

(* A card either port finds nothing wrong with has no forbidden capability *)
(* and, when the profile asks for an expiry, one that is not too far.      *)
LEMMA AdmittedCard ==
  ASSUME card \in Cards, profile \in Profiles, clock \in Nat, NEW given,
         {} \in {evaluate_compliance(card, profile, given, clock),
                 evaluateCompliance(card, profile, given, clock)}
  PROVE  /\ \A c \in profile.forbidden_capabilities : ~has_capability(card, c)
         /\ profile.require_expiry =>
              /\ card.expires_at \in Nat
              /\ \A h \in profile.max_ttl_hours : card.expires_at <= clock + h
<1>1. PICK read : /\ read.capabilities = card.capabilities
                  /\ read.expires_at = card.expires_at
                  /\ evaluate_compliance(read, profile, given, clock) = {}
  <2>1. CASE evaluate_compliance(card, profile, given, clock) = {}
    BY <2>1
  <2>2. CASE evaluateCompliance(card, profile, given, clock) = {}
    <3> DEFINE numbered == [card EXCEPT !.card_version = 1]
    <3>1. /\ numbered.capabilities = card.capabilities
          /\ numbered.expires_at = card.expires_at
      BY CardAssumption
    <3>2. \/ evaluate_compliance(numbered, profile, given, clock) = {}
          \/ evaluate_compliance(card, profile, given, clock) = {}
      BY <2>2 DEF evaluateCompliance
    <3>3. QED
      BY <3>1, <3>2
  <2>3. QED
    BY <2>1, <2>2
<1>2. \A rule \in Rule : ~Broken(rule, read, profile, given, clock)
  BY <1>1 DEF evaluate_compliance
<1>3. \A c \in profile.forbidden_capabilities : ~has_capability(read, c)
  BY <1>2 DEF Broken, Rule
<1>4. profile.require_expiry => ~ExpiryMissing(read, clock)
  BY <1>2 DEF Broken, Rule
<1>5. \A h \in profile.max_ttl_hours : ~TooLong(read, h, clock)
  BY <1>2 DEF Broken, Rule
<1>6. \A c : has_capability(read, c) <=> has_capability(card, c)
  BY <1>1 DEF has_capability, CapabilityIds
<1>7. card.expires_at \in RawExpiry
  BY CardAssumption
<1>8. profile.require_expiry => card.expires_at \in Nat
  <2>1. check_expiry(card.expires_at, clock) = "no_expiry"
          <=> card.expires_at \in {Never, Garbage}
    BY <1>7, ExpiryAnswers
  <2>2. QED
    BY <1>1, <1>4, <1>7, <2>1 DEF ExpiryMissing, RawExpiry
<1>9. ASSUME card.expires_at \in Nat, NEW h \in profile.max_ttl_hours
      PROVE  card.expires_at <= clock + h
  <2>1. ~ (card.expires_at > clock + h)
    BY <1>1, <1>5, <1>9, ExpiryAssumption DEF TooLong, parse_expires_at
  <2>2. QED
    BY <1>9, <2>1, CardAssumption
<1>10. QED
  BY <1>3, <1>6, <1>8, <1>9

(* Every enforcement that passes looks at an expiry, the card's or that of *)
(* a token, which is the card's.                                           *)
LEMMA AllowedInTime ==
  ASSUME card \in Cards, clock \in Nat, NEW action \in DOMAIN Rules,
         NEW token \in Token, Allowed(action, token), card.expires_at \in Nat
  PROVE  clock <= card.expires_at
<1>1. CASE token = {}
  <2>1. ~CardExpired(card, clock)
    BY <1>1 DEF Allowed, PolicyEnforce, enforce_all, enforce_any
  <2>2. QED
    BY <2>1, ExpiryAssumption DEF CardExpired
<1>2. ASSUME NEW t \in Tokens, token = {t}
      PROVE  clock <= card.expires_at
  <2>1. PICK r \in Rules[action] : enforce_delegated(t, r, clock)
    <3>1. token # {} /\ Rules[action] # {}
      BY <1>2, PolicyAssumption
    <3>2. QED
      BY <1>2, <3>1 DEF Allowed
  <2>2. t.expires_at = card.expires_at
    BY ExpiryAssumption DEF Tokens
  <2>3. QED
    BY <2>1, <2>2, ExpiryAnswers DEF enforce_delegated, RawExpiry
<1>3. QED
  BY <1>1, <1>2 DEF Token

-----------------------------------------------------------------------------
(***************************************************************************)
(* The catalog.                                                            *)
(***************************************************************************)
LEMMA CatalogInitInd == CatalogInit => CatalogInd
<1>1. 1 \in Version
  BY CatalogAssumption DEF Version
<1>2. QED
  BY <1>1
     DEF CatalogInit, CatalogInd, CatalogTypeOK, CatalogSound, GatesReadServed,
         NoFetch, NoCatalog

(* A fetch under way is asked or answered.                                 *)
LEMMA FetchCases ==
  ASSUME CatalogTypeOK, fetch # NoFetch
  PROVE  /\ fetch.since \subseteq Version
         /\ \/ /\ fetch.at = "asked"
               /\ fetch = [at |-> "asked", etag |-> fetch.etag,
                           since |-> fetch.since]
               /\ fetch.etag \in Version \cup {NoCatalog}
            \/ /\ fetch.at = "answered"
               /\ fetch = [at |-> "answered", status |-> fetch.status,
                           version |-> fetch.version, since |-> fetch.since]
               /\ fetch.status \in {200, 304} /\ fetch.version \in Version
BY DEF CatalogTypeOK

LEMMA CatalogStepInd ==
  ASSUME CatalogInd, [CatalogStep]_catalogVars
  PROVE  CatalogInd'
<1>1. NoCatalog \notin Version /\ server \in Version
  BY CatalogAssumption DEF Version, NoCatalog, CatalogInd, CatalogTypeOK
<1> USE DEF CatalogInd
<1>2. ASSUME Publish PROVE CatalogInd'
  <2>1. server' \in Version /\ local' = local /\ server' = server + 1
        /\ fresh' = fresh \cup {server + 1}
    BY <1>2 DEF Publish
  <2>2. CASE fetch = NoFetch
    BY <1>2, <2>1, <2>2
       DEF Publish, CatalogTypeOK, CatalogSound, GatesReadServed, NoFetch
  <2>3. CASE fetch # NoFetch
    <3>1. fetch' = [fetch EXCEPT !.since = fetch.since \cup {server'}]
      BY <1>2, <2>1, <2>3 DEF Publish
    <3>2. CASE fetch.at = "asked"
      <4>1. fetch' = [at |-> "asked", etag |-> fetch.etag,
                      since |-> fetch.since \cup {server'}]
        BY <2>3, <3>1, <3>2, FetchCases
      <4>2. QED
        BY <2>1, <2>3, <3>2, <4>1, FetchCases
           DEF CatalogTypeOK, CatalogSound, GatesReadServed
    <3>3. CASE fetch.at = "answered"
      <4>1. fetch' = [at |-> "answered", status |-> fetch.status,
                      version |-> fetch.version,
                      since |-> fetch.since \cup {server'}]
        BY <2>3, <3>1, <3>3, FetchCases
      <4>2. QED
        BY <2>1, <2>3, <3>3, <4>1, FetchCases
           DEF CatalogTypeOK, CatalogSound, GatesReadServed
    <3>4. QED
      BY <2>3, <3>2, <3>3, FetchCases
  <2>4. QED
    BY <2>2, <2>3
<1>3. ASSUME AskCatalog PROVE CatalogInd'
  BY <1>1, <1>3 DEF AskCatalog, CatalogTypeOK, CatalogSound, GatesReadServed
<1>4. ASSUME ServeCatalog PROVE CatalogInd'
  <2>1. fetch # NoFetch /\ fetch.at = "asked"
    BY <1>4 DEF ServeCatalog, NoFetch
  <2>2. fetch' = [at |-> "answered", version |-> server, since |-> fetch.since,
                  status |-> IF fetch.etag = server THEN 304 ELSE 200]
    BY <1>4 DEF ServeCatalog
  <2>3. QED
    BY <1>1, <1>4, <2>1, <2>2, FetchCases
       DEF ServeCatalog, CatalogTypeOK, CatalogSound, GatesReadServed
<1>5. ASSUME FetchFails PROVE CatalogInd'
  BY <1>5
     DEF FetchFails, CatalogTypeOK, CatalogSound, GatesReadServed, NoFetch
<1>6. ASSUME NEW readable \in BOOLEAN, ReceiveCatalog(readable)
      PROVE  CatalogInd'
  <2>1. /\ fetch # NoFetch /\ fetch.at = "answered"
        /\ fetch' = NoFetch /\ server' = server
    BY <1>6 DEF ReceiveCatalog, NoFetch
  <2>2. /\ fetch.status \in {200, 304} /\ fetch.version \in Version
        /\ fetch.since \subseteq Version /\ fetch.version \in fetch.since
    BY <2>1, FetchCases DEF CatalogSound
  <2>3. CASE readable
    <3>1. fresh' = fetch.since
      BY <1>6, <2>3 DEF ReceiveCatalog
    <3>2. CASE fetch.status = 304
      <4>1. local' = local /\ local.state = fetch.version
        BY <1>6, <2>1, <3>2 DEF ReceiveCatalog, CatalogSound
      <4>2. QED
        BY <2>1, <2>2, <3>1, <4>1
           DEF CatalogTypeOK, CatalogSound, GatesReadServed, NoFetch
    <3>3. CASE fetch.status = 200
      <4>1. local' = [state |-> fetch.version, etag |-> fetch.version]
        BY <1>6, <2>3, <3>3 DEF ReceiveCatalog
      <4>2. QED
        BY <2>1, <2>2, <3>1, <4>1
           DEF CatalogTypeOK, CatalogSound, GatesReadServed, NoFetch
    <3>4. QED
      BY <2>2, <3>2, <3>3
  <2>4. CASE ~readable
    <3>1. fresh' = fresh /\ local' = local
      BY <1>6, <2>2, <2>4 DEF ReceiveCatalog, AfterBadBody
    <3>2. QED
      BY <2>1, <3>1 DEF CatalogTypeOK, CatalogSound, GatesReadServed, NoFetch
  <2>5. QED
    BY <2>3, <2>4
<1>7. ASSUME UNCHANGED catalogVars PROVE CatalogInd'
  BY <1>7 DEF catalogVars, CatalogTypeOK, CatalogSound, GatesReadServed
<1>8. QED
  BY <1>2, <1>3, <1>4, <1>5, <1>6, <1>7 DEF CatalogStep

-----------------------------------------------------------------------------
(***************************************************************************)
(* Receipts.                                                               *)
(***************************************************************************)
LEMMA ReceiptsInitInd == ReceiptsInit => ReceiptsInd
BY ReceiptsAssumption
   DEF ReceiptsInit, ReceiptsInd, ReceiptsTypeOK, ReceiptsSound

LEMMA ReceiptFields ==
  ASSUME ReceiptsSound, NEW c \in ToolCall, receipts[c] # Null
  PROVE  receipts[c].call = c /\ receipts[c].receipt_id = <<c, 0>>
<1>1. PICK status \in Outcomes, key \in {AgentKey, Null} :
        receipts[c] = create_receipt(c, status, key)
  BY DEF ReceiptsSound
<1>2. /\ create_receipt(c, status, key).call = c
      /\ create_receipt(c, status, key).receipt_id = <<c, 0>>
  BY DEF create_receipt
<1>3. QED
  BY <1>1, <1>2

(* The step that makes a receipt of a call that has none.                  *)
LEMMA CreatedInd ==
  ASSUME ReceiptsInd, NEW id \in ToolCall, receipts[id] = Null,
         NEW status \in Outcomes, NEW key \in {AgentKey, Null},
         Created(id, status, key), UNCHANGED <<posts, sent, rows, v2, acked>>
  PROVE  ReceiptsInd'
<1> DEFINE r == create_receipt(id, status, key)
<1>1. validate_receipt(r, Null) /\ receipts' = [receipts EXCEPT ![id] = r]
  BY DEF Created
<1>2. DOMAIN receipts = ToolCall
  BY DEF ReceiptsInd, ReceiptsTypeOK
<1>3. \A p \in sent : p.call # id
  BY DEF ReceiptsInd, ReceiptsSound
<1>4. \A row \in rows : row.call # id
  BY DEF ReceiptsInd, ReceiptsSound
<1> HIDE DEF r
<1>5. \A c \in ToolCall : c # id => receipts'[c] = receipts[c]
  BY <1>1, <1>2
<1>6. receipts'[id] = r /\ DOMAIN receipts' = ToolCall
  BY <1>1, <1>2
<1>7. ReceiptsTypeOK'
  <2>1. \A c \in ToolCall :
          receipts'[c] = Null \/ validate_receipt(receipts'[c], Null)
    BY <1>1, <1>5, <1>6 DEF ReceiptsInd, ReceiptsTypeOK
  <2>2. QED
    BY <1>6, <2>1
       DEF ReceiptsInd, ReceiptsTypeOK, validate_receipt, WellFormed, HashHolds
<1>8. ReceiptsSound'
  <2>1. \A c \in ToolCall :
          \/ receipts'[c] = Null
          \/ \E s \in Outcomes, k \in {AgentKey, Null} :
               receipts'[c] = create_receipt(c, s, k)
    BY <1>5, <1>6 DEF ReceiptsInd, ReceiptsSound, r
  <2>2. \A p \in sent :
          p.call \in ToolCall /\ p.receipt # Null /\ p.receipt = receipts'[p.call]
    BY <1>3, <1>5 DEF ReceiptsInd, ReceiptsSound
  <2>3. \A row \in rows :
          row.call \in ToolCall /\ row # Null /\ row = receipts'[row.call]
    BY <1>4, <1>5 DEF ReceiptsInd, ReceiptsSound
  <2>4. \A c \in acked : receipts'[c] \in rows
    <3>1. ASSUME NEW c \in acked PROVE c # id
      BY <1>4 DEF ReceiptsInd, ReceiptsSound
    <3>2. QED
      BY <1>5, <3>1 DEF ReceiptsInd, ReceiptsSound, ReceiptsTypeOK
  <2>5. QED
    BY <2>1, <2>2, <2>3, <2>4 DEF ReceiptsSound, create_receipt
<1>9. QED
  BY <1>7, <1>8 DEF ReceiptsInd

(* The reply to a post changes nothing but whether its sender waits and,   *)
(* when its receipt is on the server, what is acknowledged.                *)
LEMMA ReplyInd ==
  ASSUME ReceiptsInd, NEW p \in sent, NEW reply, sent' = sent \ {p},
         Reply(p, reply), UNCHANGED <<receipts, v2>>,
         rows' \in {rows, rows \cup {p.receipt}},
         reply.ok => p.receipt \in rows' \/ ~Acknowledged(reply, p.receipt)
  PROVE  ReceiptsInd'
<1>1. p.call \in ToolCall /\ p.receipt # Null /\ p.receipt = receipts[p.call]
  BY DEF ReceiptsInd, ReceiptsSound
<1>2. p.receipt.call = p.call
  BY <1>1, ReceiptFields DEF ReceiptsInd
<1>3. /\ posts' \in [ToolCall -> [made : 0 .. MaxPosts, waiting : BOOLEAN]]
      /\ \A c \in ToolCall : posts'[c].made = posts[c].made
  BY <1>1 DEF Reply, ReceiptsInd, ReceiptsTypeOK
<1>4. \/ acked' = acked
      \/ acked' = acked \cup {p.call} /\ p.receipt \in rows'
  BY DEF Reply, Acknowledged
<1>5. ReceiptsTypeOK'
  BY <1>1, <1>3, <1>4
     DEF ReceiptsInd, ReceiptsTypeOK, validate_receipt, WellFormed, HashHolds
<1>6. ReceiptsSound'
  BY <1>1, <1>2, <1>4
     DEF ReceiptsInd, ReceiptsSound, create_receipt, ReceiptsTypeOK
<1>7. QED
  BY <1>5, <1>6 DEF ReceiptsInd

(* A receipt whose id is on the server is itself on the server.            *)
LEMMA StoredByIngest ==
  ASSUME ReceiptsInd, NEW p \in sent, Ingest(p), v2
  PROVE  p.receipt \in rows'
<1>1. p.call \in ToolCall /\ p.receipt = receipts[p.call] /\ p.receipt # Null
  BY DEF ReceiptsInd, ReceiptsSound
<1>2. CASE \A row \in rows : row.receipt_id # p.receipt.receipt_id
  BY <1>2 DEF Ingest
<1>3. ASSUME NEW row \in rows, row.receipt_id = p.receipt.receipt_id
      PROVE  p.receipt \in rows'
  <2>1. row.call \in ToolCall /\ row = receipts[row.call] /\ row # Null
    BY DEF ReceiptsInd, ReceiptsSound
  <2>2. /\ row.receipt_id = <<row.call, 0>>
        /\ p.receipt.receipt_id = <<p.call, 0>>
    BY <1>1, <2>1, ReceiptFields DEF ReceiptsInd
  <2>3. <<row.call, 0>> = <<p.call, 0>>
    BY <1>3, <2>2
  <2>4. QED
    BY <1>1, <2>1, <2>3 DEF Ingest
<1>4. QED
  BY <1>2, <1>3

LEMMA ReceiptStepInd ==
  ASSUME ReceiptsInd, [ReceiptStep]_receiptVars
  PROVE  ReceiptsInd' /\ receipts' = receipts
<1> USE DEF ReceiptsInd
<1>1. ASSUME NEW c \in ToolCall, Post(c)
      PROVE  ReceiptsInd' /\ receipts' = receipts
  <2>1. /\ receipts' = receipts /\ rows' = rows /\ v2' = v2 /\ acked' = acked
        /\ receipts[c] # Null /\ posts[c].made < MaxPosts
        /\ posts' = [posts EXCEPT ![c] = [made |-> posts[c].made + 1,
                                          waiting |-> TRUE]]
        /\ sent' = sent \cup {[call |-> c, n |-> posts[c].made + 1,
                               receipt |-> receipts[c]]}
    BY <1>1 DEF Post, ToPost
  <2>2. posts[c].made \in 0 .. MaxPosts /\ MaxPosts \in Nat
    BY ReceiptsAssumption DEF ReceiptsTypeOK
  <2>3. /\ posts' \in [ToolCall -> [made : 0 .. MaxPosts, waiting : BOOLEAN]]
        /\ posts'[c].made = posts[c].made + 1
        /\ \A d \in ToolCall : d # c => posts'[d] = posts[d]
    BY <2>1, <2>2 DEF ReceiptsTypeOK
  <2>4. \A q \in sent' : q.call \in ToolCall /\ q.n \in 1 .. posts'[q.call].made
    <3>1. ASSUME NEW q \in sent
          PROVE  q.call \in ToolCall /\ q.n \in 1 .. posts'[q.call].made
      BY <2>2, <2>3 DEF ReceiptsTypeOK
    <3>2. QED
      BY <2>1, <2>2, <2>3, <3>1
  <2>5. ReceiptsTypeOK'
    BY <2>1, <2>3, <2>4
       DEF ReceiptsTypeOK, validate_receipt, WellFormed, HashHolds
  <2>6. ReceiptsSound'
    BY <2>1 DEF ReceiptsSound
  <2>7. QED
    BY <2>1, <2>5, <2>6
<1>2. ASSUME NEW c \in ToolCall, GiveUp(c)
      PROVE  ReceiptsInd' /\ receipts' = receipts
  <2>1. /\ receipts' = receipts /\ rows' = rows /\ v2' = v2 /\ acked' = acked
        /\ sent' = sent /\ posts' = [posts EXCEPT ![c].waiting = FALSE]
    BY <1>2 DEF GiveUp
  <2>2. /\ posts' \in [ToolCall -> [made : 0 .. MaxPosts, waiting : BOOLEAN]]
        /\ \A d \in ToolCall : posts'[d].made = posts[d].made
    BY <2>1 DEF ReceiptsTypeOK
  <2>3. ReceiptsTypeOK'
    BY <2>1, <2>2 DEF ReceiptsTypeOK, validate_receipt, WellFormed, HashHolds
  <2>4. ReceiptsSound'
    BY <2>1 DEF ReceiptsSound
  <2>5. QED
    BY <2>1, <2>3, <2>4
<1>3. ASSUME NEW p \in sent, Ingest(p)
      PROVE  ReceiptsInd' /\ receipts' = receipts
  <2> DEFINE reply == [ok |-> TRUE,
                       verification_status |-> IF v2 THEN Expected(p.receipt)
                                               ELSE "none"]
  <2>1. /\ sent' = sent \ {p} /\ receipts' = receipts /\ v2' = v2
        /\ Reply(p, reply) /\ rows' \in {rows, rows \cup {p.receipt}}
    BY <1>3 DEF Ingest
  <2>3. v2 => p.receipt \in rows'
    BY <1>3, StoredByIngest
  <2>4. ~v2 => ~Acknowledged(reply, p.receipt)
    BY DEF Acknowledged, Expected
  <2> HIDE DEF reply
  <2>5. QED
    BY <2>1, <2>3, <2>4, ReplyInd
<1>4. ASSUME NEW p \in sent, Refuse(p)
      PROVE  ReceiptsInd' /\ receipts' = receipts
  BY <1>4, ReplyInd DEF Refuse
<1>5. ASSUME Redeploy PROVE ReceiptsInd' /\ receipts' = receipts
  BY <1>5
     DEF Redeploy, ReceiptsTypeOK, ReceiptsSound, validate_receipt, WellFormed,
         HashHolds
<1>6. ASSUME UNCHANGED receiptVars PROVE ReceiptsInd' /\ receipts' = receipts
  BY <1>6
     DEF receiptVars, ReceiptsTypeOK, ReceiptsSound, validate_receipt,
         WellFormed, HashHolds
<1>7. QED
  BY <1>1, <1>2, <1>3, <1>4, <1>5, <1>6 DEF ReceiptStep

-----------------------------------------------------------------------------
(***************************************************************************)
(* The host.                                                               *)
(***************************************************************************)
LEMMA InitInd == Init => IndInv
<1> SUFFICES ASSUME Init PROVE IndInv
  OBVIOUS
<1>1. CatalogInd /\ ReceiptsInd
  BY CatalogInitInd, ReceiptsInitInd DEF Init
<1>2. HostTypeOK
  BY HostAssumption
     DEF Init, HostTypeOK, CallState, NoRequest, EscalationRequest, NothingDone
<1>3. AdmissionSound /\ CallSound
  BY DEF Init, AdmissionSound, CallSound, NoCall
<1>4. DoneSound /\ NoTriggerEvaded
  BY DEF Init, DoneSound, NoTriggerEvaded, NothingDone
<1>5. QED
  BY <1>1, <1>2, <1>3, <1>4 DEF IndInv, HostInd

(* What a call that is under way is made of.                               *)
LEMMA CallParts ==
  ASSUME HostTypeOK, call # NoCall
  PROVE  /\ call.id \in ToolCall /\ call.action \in DOMAIN Rules
         /\ call.token \in Token
         /\ call.at \in {"gated", "enforced", "cleared", "escalated"}
         /\ call.at # "gated" =>
              /\ call.enforced \in 0 .. clock
              /\ call = [at |-> call.at, id |-> call.id, action |-> call.action,
                         token |-> call.token, enforced |-> call.enforced]
BY DEF HostTypeOK, CallState

(* Tokens are cut from the card.                                           *)
LEMMA TokensStay == card' = card => Token' = Token
BY DEF Token, Tokens, CapabilityIds

(* A step that leaves the call, or ends it, and what it last exercised.    *)
LEMMA CallKept ==
  ASSUME HostTypeOK, clock' \in Nat, clock <= clock', card' = card,
         call' \in {call, NoCall}
  PROVE  call' \in CallState'
<1>1. CASE call' = NoCall
  BY <1>1 DEF CallState
<1>2. CASE call' = call /\ call # NoCall
  <2>1. clock \in Nat /\ call \in CallState /\ Token' = Token
    BY HostAssumption, TokensStay DEF HostTypeOK
  <2>2. 0 .. clock \subseteq 0 .. clock'
    BY <2>1
  <2>3. QED
    BY <1>2, <2>1, <2>2 DEF CallState
<1>3. QED
  BY <1>1, <1>2

LEMMA AdmitInd ==
  ASSUME HostInd, NEW given \in Givens, Admit(given)
  PROVE  HostInd'
<1>1. /\ admitted = Never /\ admitted' = clock /\ clock' = clock
      /\ card' = card /\ profile' = profile /\ call' = call /\ done' = done
      /\ request' = request /\ receipts' = receipts
      /\ {} \in {evaluate_compliance(card, profile, given, clock),
                 evaluateCompliance(card, profile, given, clock)}
  BY DEF Admit, receiptVars
<1>2. clock \in Nat /\ card \in Cards /\ profile \in Profiles
  BY HostAssumption DEF HostInd, HostTypeOK
<1>3. HostTypeOK'
  BY <1>1, <1>2, CallKept DEF HostInd, HostTypeOK
<1>4. AdmissionSound'
  BY <1>1, <1>2, AdmittedCard DEF AdmissionSound, has_capability, CapabilityIds
<1>5. call = NoCall /\ done.caps = {}
  BY <1>1 DEF HostInd, CallSound, DoneSound
<1>6. CallSound' /\ DoneSound' /\ NoTriggerEvaded'
  BY <1>1, <1>5
     DEF HostInd, CallSound, DoneSound, NoTriggerEvaded, NoCall
<1>7. QED
  BY <1>3, <1>4, <1>6 DEF HostInd

LEMMA PassGatesInd ==
  ASSUME HostInd, NEW id \in ToolCall, NEW action \in DOMAIN Rules,
         NEW tool, NEW token \in Token, PassGates(id, action, tool, token)
  PROVE  HostInd'
<1>1. /\ admitted # Never /\ receipts[id] = Null
      /\ call' = [at |-> "gated", id |-> id, action |-> action, token |-> token]
      /\ admitted' = admitted /\ clock' = clock /\ card' = card
      /\ profile' = profile /\ done' = done /\ request' = request
      /\ receipts' = receipts
  BY DEF PassGates, receiptVars
<1>2. HostTypeOK'
  <2>1. call' \in CallState'
    BY <1>1, TokensStay DEF CallState
  <2>2. QED
    BY <1>1, <2>1 DEF HostInd, HostTypeOK
<1>3. AdmissionSound' /\ DoneSound' /\ NoTriggerEvaded'
  BY <1>1
     DEF HostInd, AdmissionSound, DoneSound, NoTriggerEvaded, has_capability,
         CapabilityIds
<1>4. CallSound'
  BY <1>1 DEF CallSound
<1>5. QED
  BY <1>2, <1>3, <1>4 DEF HostInd

LEMMA EnforceInd ==
  ASSUME HostInd, Enforce
  PROVE  HostInd'
<1>1. /\ call.at = "gated" /\ call # NoCall /\ Allowed(call.action, call.token)
      /\ call' = [at |-> "enforced", id |-> call.id, action |-> call.action,
                  token |-> call.token, enforced |-> clock]
      /\ admitted' = admitted /\ clock' = clock /\ card' = card
      /\ profile' = profile /\ done' = done /\ request' = request
      /\ receipts' = receipts
  BY DEF Enforce, receiptVars, NoCall
<1>2. /\ call.id \in ToolCall /\ call.action \in DOMAIN Rules
      /\ call.token \in Token /\ clock \in Nat /\ card \in Cards
  BY <1>1, CallParts, HostAssumption DEF HostInd, HostTypeOK
<1>3. HostTypeOK'
  <2>1. call' \in CallState'
    BY <1>1, <1>2, TokensStay DEF CallState
  <2>2. QED
    BY <1>1, <2>1 DEF HostInd, HostTypeOK
<1>4. AdmissionSound' /\ DoneSound' /\ NoTriggerEvaded'
  BY <1>1
     DEF HostInd, AdmissionSound, DoneSound, NoTriggerEvaded, has_capability,
         CapabilityIds
<1>5. CallSound'
  <2>1. card.expires_at \in Nat => clock <= card.expires_at
    BY <1>1, <1>2, AllowedInTime
  <2>2. QED
    BY <1>1, <2>1 DEF HostInd, CallSound
<1>6. QED
  BY <1>3, <1>4, <1>5 DEF HostInd

LEMMA EscalateInd ==
  ASSUME HostInd, Escalate
  PROVE  HostInd'
<1>1. PICK i \in {check_escalation(Triggers, Rules[call.action]),
                  checkEscalation(Triggers, Rules[call.action])} :
        /\ request' = EscalationRequest(i)
        /\ call' = [call EXCEPT !.at = IF i = NoTrigger THEN "cleared"
                                       ELSE "escalated"]
  BY DEF Escalate
<1>2. /\ call.at = "enforced" /\ call # NoCall
      /\ admitted' = admitted /\ clock' = clock /\ card' = card
      /\ profile' = profile /\ done' = done /\ receipts' = receipts
  BY DEF Escalate, receiptVars, NoCall
<1>3. /\ i \in DOMAIN Triggers \cup {NoTrigger}
      /\ i = NoTrigger =>
           \A j \in DOMAIN Triggers : ~matches(Triggers[j], Rules[call.action])
  BY ClearedMatchesNone
<1>4. /\ call.id \in ToolCall /\ call.action \in DOMAIN Rules
      /\ call.token \in Token /\ call.enforced \in 0 .. clock
      /\ call = [at |-> call.at, id |-> call.id, action |-> call.action,
                 token |-> call.token, enforced |-> call.enforced]
  BY <1>2, CallParts DEF HostInd
<1>5. call' = [at |-> IF i = NoTrigger THEN "cleared" ELSE "escalated",
               id |-> call.id, action |-> call.action, token |-> call.token,
               enforced |-> call.enforced]
  BY <1>1, <1>4
<1>6. HostTypeOK'
  <2>1. call' \in CallState'
    BY <1>2, <1>4, <1>5, TokensStay DEF CallState
  <2>2. QED
    BY <1>1, <1>2, <1>3, <2>1 DEF HostInd, HostTypeOK, EscalationRequest
<1>7. AdmissionSound' /\ DoneSound' /\ NoTriggerEvaded'
  BY <1>2
     DEF HostInd, AdmissionSound, DoneSound, NoTriggerEvaded, has_capability,
         CapabilityIds
<1>8. CallSound'
  BY <1>2, <1>3, <1>5 DEF HostInd, CallSound
<1>9. QED
  BY <1>6, <1>7, <1>8 DEF HostInd

(* Steps that leave what the host knows, or end its call.                  *)
LEMMA QuietInd ==
  ASSUME HostInd, call' \in {call, NoCall}, clock' \in clock .. MaxClock,
         request' = request \/ \E status \in {"approved", "denied"},
                                  by \in Operator : Resolve(status, by),
         receipts' = receipts,
         UNCHANGED <<card, profile, admitted, done>>
  PROVE  HostInd'
<1>1. clock \in Nat /\ clock' \in Nat /\ MaxClock \in Nat
  BY HostAssumption DEF HostInd, HostTypeOK
<1>2. request' \in [triggered_by : DOMAIN Triggers \cup {NoTrigger},
                    status : {"pending", "approved", "denied"},
                    resolved_by : SUBSET Operator]
  <2>1. CASE request' = request
    BY <2>1 DEF HostInd, HostTypeOK
  <2>2. ASSUME NEW status \in {"approved", "denied"}, NEW by \in Operator,
               Resolve(status, by)
        PROVE  request' = [triggered_by |-> request.triggered_by,
                           status |-> status, resolved_by |-> {by}]
    BY <2>2 DEF HostInd, HostTypeOK, Resolve, Resolved
  <2>3. QED
    BY <2>1, <2>2 DEF HostInd, HostTypeOK
<1>3. HostTypeOK'
  <2>1. call' \in CallState'
    BY <1>1, CallKept DEF HostInd
  <2>2. admitted' \in 0 .. clock' \cup {Never} /\ clock' \in 0 .. MaxClock
    BY <1>1 DEF HostInd, HostTypeOK
  <2>3. QED
    BY <1>2, <2>1, <2>2 DEF HostInd, HostTypeOK
<1>4. AdmissionSound' /\ DoneSound' /\ NoTriggerEvaded'
  BY DEF HostInd, AdmissionSound, DoneSound, NoTriggerEvaded, has_capability,
         CapabilityIds
<1>5. CallSound'
  BY DEF HostInd, CallSound, NoCall
<1>6. QED
  BY <1>3, <1>4, <1>5 DEF HostInd

LEMMA ExecuteInd ==
  ASSUME HostInd, ReceiptsInd, NEW status \in Outcomes,
         NEW key \in {AgentKey, Null}, Execute(status, key)
  PROVE  HostInd' /\ ReceiptsInd'
<1>1. /\ call # NoCall /\ call' = NoCall
      /\ call.at = "cleared" \/ call.at = "escalated"
      /\ done' = [caps |-> Exercised, approved |-> call.at = "escalated"]
      /\ Created(call.id, status, key)
      /\ UNCHANGED <<clock, card, profile, admitted, request>>
      /\ UNCHANGED <<posts, sent, rows, v2, acked>>
  BY DEF Execute, NoCall
<1>2. /\ call.id \in ToolCall /\ call.action \in DOMAIN Rules
      /\ call.token \in Token /\ card \in Cards
      /\ admitted # Never /\ receipts[call.id] = Null
  BY <1>1, CallParts DEF HostInd, HostTypeOK, CallSound
<1>3. ReceiptsInd'
  BY <1>1, <1>2, CreatedInd
<1>4. HostTypeOK'
  <2>1. done' \in [caps : SUBSET Concrete, approved : BOOLEAN]
    BY <1>1 DEF Exercised
  <2>2. QED
    BY <1>1, <2>1 DEF HostInd, HostTypeOK, CallState
<1>5. AdmissionSound'
  BY <1>1 DEF HostInd, AdmissionSound, has_capability, CapabilityIds
<1>6. CallSound'
  BY <1>1 DEF CallSound, NoCall
<1>7. DoneSound'
  <2>1. \A x \in Exercised : has_capability(card, x)
    BY <1>2, ExercisedIsHeld
  <2>2. QED
    BY <1>1, <1>2, <2>1 DEF DoneSound, has_capability, CapabilityIds
<1>8. NoTriggerEvaded'
  <2>1. CASE call.at = "escalated"
    BY <1>1, <2>1 DEF NoTriggerEvaded
  <2>2. CASE call.at = "cleared"
    <3>1. \A i \in DOMAIN Triggers : ~matches(Triggers[i], Rules[call.action])
      BY <2>2 DEF HostInd, CallSound
    <3>2. done'.caps = Exercised
      BY <1>1
    <3>3. QED
      BY <1>2, <3>1, <3>2, ExercisedMatches DEF NoTriggerEvaded
  <2>3. QED
    BY <1>1, <2>1, <2>2
<1>9. QED
  BY <1>3, <1>4, <1>5, <1>6, <1>7, <1>8 DEF HostInd

-----------------------------------------------------------------------------
LEMMA StepInd ==
  ASSUME IndInv, [Next]_vars
  PROVE  IndInv'
<1> USE DEF IndInv
<1>1. clock \in Nat /\ MaxClock \in Nat /\ clock \in clock .. MaxClock
  BY HostAssumption DEF HostInd, HostTypeOK
<1>2. UNCHANGED catalogVars => CatalogInd'
  BY CatalogStepInd
<1>3. UNCHANGED receiptVars => ReceiptsInd' /\ receipts' = receipts
  BY ReceiptStepInd
<1>4. ASSUME NEW given \in Givens, Admit(given) PROVE IndInv'
  BY <1>2, <1>3, <1>4, AdmitInd DEF Admit
<1>5. ASSUME NEW id \in ToolCall, NEW action \in DOMAIN Rules, NEW tool \in Tool,
             NEW token \in Token, PassGates(id, action, tool, token)
      PROVE  IndInv'
  BY <1>2, <1>3, <1>5, PassGatesInd DEF PassGates
<1>6. ASSUME Enforce PROVE IndInv'
  BY <1>2, <1>3, <1>6, EnforceInd DEF Enforce
<1>7. ASSUME Escalate PROVE IndInv'
  BY <1>2, <1>3, <1>7, EscalateInd DEF Escalate
<1>8. ASSUME Abandon PROVE IndInv'
  BY <1>1, <1>2, <1>3, <1>8, QuietInd DEF Abandon
<1>9. ASSUME Tick PROVE IndInv'
  BY <1>1, <1>2, <1>3, <1>9, QuietInd DEF Tick
<1>10. ASSUME NEW status \in {"approved", "denied"}, NEW by \in Operator,
              Resolve(status, by)
       PROVE  IndInv'
  BY <1>1, <1>2, <1>3, <1>10, QuietInd DEF Resolve
<1>11. ASSUME NEW status \in Outcomes, NEW key \in {AgentKey, Null},
              Execute(status, key)
       PROVE  IndInv'
  BY <1>2, <1>11, ExecuteInd DEF Execute
<1>12. ASSUME CatalogStep, UNCHANGED <<hostVars, receiptVars>>
       PROVE  IndInv'
  BY <1>1, <1>3, <1>12, QuietInd, CatalogStepInd DEF hostVars
<1>13. ASSUME ReceiptStep, UNCHANGED <<hostVars, catalogVars>>
       PROVE  IndInv'
  BY <1>1, <1>2, <1>13, QuietInd, ReceiptStepInd DEF hostVars
<1>14. ASSUME UNCHANGED vars PROVE IndInv'
  BY <1>1, <1>2, <1>3, <1>14, QuietInd DEF vars, hostVars
<1>15. QED
  BY <1>4, <1>5, <1>6, <1>7, <1>8, <1>9, <1>10, <1>11, <1>12, <1>13, <1>14
     DEF Next

(***************************************************************************)
(* What holds of the card, of the call under way, of the catalog fetch and *)
(* of the receipts, in every state of a host.                              *)
(***************************************************************************)
THEOREM Inductive == Spec => []IndInv
BY InitInd, StepInd, PTL DEF Spec

(* The host's variables keep their types.                                  *)
THEOREM TypeCorrect == Spec => []TypeOK
<1>1. IndInv => TypeOK
  BY DEF IndInv, HostInd, HostTypeOK, CatalogInd, ReceiptsInd, TypeOK
<1>2. QED
  BY <1>1, Inductive, PTL

(***************************************************************************)
(* No card passes an enforcement that verification, asked at that moment,  *)
(* would call expired.                                                     *)
(***************************************************************************)
THEOREM EnforcedCardsVerify == Spec => []EnforcedIsVerified
<1>1. ASSUME IndInv PROVE EnforcedIsVerified
  <2>1. clock \in Nat /\ card.expires_at \in RawExpiry
    BY <1>1, HostAssumption, CardAssumption DEF IndInv, HostInd, HostTypeOK
  <2>2. ~CardExpired(card, clock) => ~is_expired(card.expires_at, clock)
    BY <2>1, ExpiryAnswers, ExpiryAssumption DEF CardExpired
  <2>3. QED
    BY <2>2
       DEF EnforcedIsVerified, PolicyEnforce, enforce_all, enforce_any,
           validate_expiry_for_verify, is_expired
<1>2. QED
  BY <1>1, Inductive, PTL

(***************************************************************************)
(* What a profile asked of a card at its admission holds of every later    *)
(* call, on the card or on a token delegated from it.                      *)
(***************************************************************************)
THEOREM AdmissionLasts == Spec => []ComplianceHolds
<1>1. ASSUME IndInv PROVE ComplianceHolds
  <2>1. done.caps \cap profile.forbidden_capabilities = {}
    BY <1>1 DEF IndInv, HostInd, AdmissionSound, DoneSound
  <2>2. ASSUME NEW h \in profile.max_ttl_hours, profile.require_expiry,
               call.at \notin {"idle", "gated"}
        PROVE  call.enforced <= admitted + h
    <3>1. call # NoCall /\ admitted # Never
      BY <1>1, <2>2 DEF IndInv, HostInd, CallSound, NoCall
    <3>2. call.enforced \in Int /\ admitted \in Int /\ h \in Int
      BY <1>1, <2>2, <3>1, CallParts, CardAssumption, HostAssumption
         DEF IndInv, HostInd, HostTypeOK
    <3>3. /\ card.expires_at \in Nat /\ card.expires_at <= admitted + h
          /\ call.enforced <= card.expires_at
      BY <1>1, <2>2, <3>1 DEF IndInv, HostInd, AdmissionSound, CallSound
    <3>4. QED
      BY <3>2, <3>3
  <2>3. QED
    BY <2>1, <2>2 DEF ComplianceHolds
<1>2. QED
  BY <1>1, Inductive, PTL

(***************************************************************************)
(* A call that exercised what a trigger names was approved when it ran.    *)
(***************************************************************************)
THEOREM TriggersAreMet == Spec => []NoTriggerEvaded
<1>1. IndInv => NoTriggerEvaded
  BY DEF IndInv, HostInd
<1>2. QED
  BY <1>1, Inductive, PTL

(***************************************************************************)
(* The gates read a version that was served after the last fetch that      *)
(* succeeded was made.                                                     *)
(***************************************************************************)
THEOREM GatesReadWhatWasServed == Spec => []GatesReadServed
<1>1. IndInv => GatesReadServed
  BY DEF IndInv, CatalogInd, CatalogSound
<1>2. QED
  BY <1>1, Inductive, PTL

(* Of what can be made of a receipt without the agent's key, only the      *)
(* receipt itself has a signature by that key of what it says.             *)
LEMMA NothingForged ==
  ASSUME NEW c \in ToolCall, NEW status, NEW key \in {AgentKey, Null},
         NEW r, r = create_receipt(c, status, key),
         NEW f \in Forgeries(r), verify_receipt(f, AgentKey)
  PROVE  f = r
<1>1. AgentKey # OtherKey /\ AgentKey # Null
  BY ReceiptsAssumption
<1> DEFINE fields == [receipt_id |-> <<c, 0>>, call |-> c, status |-> status,
                      public_key |-> key]
           own == IF key = Null THEN Null ELSE Sign(key, fields)
<1>2. PICK h \in Rehashed(r) :
        f \in {h, [h EXCEPT !.signature = Null],
              [h EXCEPT !.signature = Sign(OtherKey, h.call_hash)]}
  BY Zenon DEF Forgeries
<1>3. r = [receipt_id |-> <<c, 0>>, call |-> c, status |-> status,
           public_key |-> key, call_hash |-> fields, signature |-> own]
  BY DEF create_receipt
<1>4. PICK a \in Altered(r) : h \in {a, [a EXCEPT !.call_hash = FIELDS(a)]}
  BY Zenon DEF Rehashed
<1>5. PICK d \in ToolCall, s \in {"ok", "error"},
           k \in {r.public_key, OtherKey, Null} :
        a = [receipt_id |-> r.receipt_id, call |-> d, status |-> s,
             public_key |-> k, call_hash |-> r.call_hash,
             signature |-> r.signature]
  BY DEF Altered
<1> HIDE DEF fields, own
<1>6. a = [receipt_id |-> <<c, 0>>, call |-> d, status |-> s, public_key |-> k,
           call_hash |-> fields, signature |-> own]
  BY <1>3, <1>5
<1>7. PICK hash :
        h = [receipt_id |-> <<c, 0>>, call |-> d, status |-> s,
             public_key |-> k, call_hash |-> hash, signature |-> own]
  BY <1>4, <1>6
<1>8. PICK sig \in {own, Null, Sign(OtherKey, hash)} :
        f = [receipt_id |-> <<c, 0>>, call |-> d, status |-> s,
             public_key |-> k, call_hash |-> hash, signature |-> sig]
  BY <1>2, <1>7
<1>9. /\ sig # Null /\ k = AgentKey /\ sig = Sign(AgentKey, hash)
      /\ hash = [receipt_id |-> <<c, 0>>, call |-> d, status |-> s,
                 public_key |-> k]
  BY <1>1, <1>8
     DEF verify_receipt, validate_receipt, HashHolds, FIELDS
<1>10. sig # Sign(OtherKey, hash)
  BY <1>1, <1>9 DEF Sign
<1>11. key = AgentKey /\ own = Sign(AgentKey, fields) /\ sig = own
  BY <1>3, <1>8, <1>9, <1>10 DEF own
<1>12. hash = fields
  BY <1>9, <1>11 DEF Sign
<1>13. d = c /\ s = status
  BY <1>9, <1>12 DEF fields
<1>14. QED
  BY <1>3, <1>8, <1>9, <1>11, <1>12, <1>13

(***************************************************************************)
(* Under the agent's pinned key nothing verifies but what the agent made.  *)
(***************************************************************************)
THEOREM IssuedAloneVerifies == Spec => []VerifiedIsIssued
<1>1. IndInv => VerifiedIsIssued
  BY NothingForged DEF IndInv, ReceiptsInd, ReceiptsSound, VerifiedIsIssued
<1>2. QED
  BY <1>1, Inductive, PTL

-----------------------------------------------------------------------------
(***************************************************************************)
(* Receipts implement Evidence.                                            *)
(***************************************************************************)
(* The server has at most one row of each call.                            *)
RecordsOf(c) == Cardinality({row \in rows : row.call = c})

Counted ==
  \A c \in ToolCall : RecordsOf(c) = IF receipts[c] \in rows THEN 1 ELSE 0

LEMMA RowsAreCounted == ReceiptsInd => Counted
<1> SUFFICES ASSUME ReceiptsInd, NEW c \in ToolCall
             PROVE  RecordsOf(c) = IF receipts[c] \in rows THEN 1 ELSE 0
  BY DEF Counted
<1>1. receipts[c] \in rows => receipts[c].call = c
  BY ReceiptFields DEF ReceiptsInd, ReceiptsSound
<1>2. \A row \in rows : row.call = c => row = receipts[c]
  BY DEF ReceiptsInd, ReceiptsSound
<1>3. CASE receipts[c] \in rows
  <2>1. {row \in rows : row.call = c} = {receipts[c]}
    BY <1>1, <1>2, <1>3
  <2>2. QED
    BY <1>3, <2>1, FS_Singleton DEF RecordsOf
<1>4. CASE receipts[c] \notin rows
  <2>1. {row \in rows : row.call = c} = {}
    BY <1>2, <1>4
  <2>2. QED
    BY <1>4, <2>1, FS_EmptySet DEF RecordsOf
<1>5. QED
  BY <1>3, <1>4

(* An arrival is a report of its call, or changes nothing.                 *)
LEMMA IngestReports ==
  ASSUME ReceiptsInd, ReceiptsInd', receipts' = receipts,
         NEW p \in sent, Ingest(p)
  PROVE  [Promise!Next]_(Promise!vars)
<1>1. Counted /\ Counted'
  BY RowsAreCounted, PTL
<1>2. p.call \in ToolCall /\ p.receipt = receipts[p.call] /\ p.receipt # Null
  BY DEF ReceiptsInd, ReceiptsSound
<1> DEFINE answered == acked' = acked \cup {p.call}
<1>3. CASE v2
  <2>1. p.receipt \in rows' /\ rows' \in {rows, rows \cup {p.receipt}}
    BY <1>3, StoredByIngest DEF Ingest
  <2>2. \A c \in ToolCall : c # p.call => receipts[c] # p.receipt
    BY <1>2, ReceiptFields DEF ReceiptsInd
  <2>3. \A c \in ToolCall :
          RecordsOf(c)' = IF c = p.call THEN 1 ELSE RecordsOf(c)
    BY <1>1, <1>2, <2>1, <2>2 DEF Counted
  <2>4. acked' = acked \/ acked' = acked \cup {p.call}
    BY DEF Ingest, Reply
  <2>5. [c \in ToolCall |-> RecordsOf(c)]'
          = [[c \in ToolCall |-> RecordsOf(c)] EXCEPT ![p.call] = 1]
    BY <1>2, <2>3
  <2>6. \E b \in BOOLEAN : Promise!Report(p.call, b)
    BY <2>4, <2>5 DEF Promise!Report, RecordsOf
  <2>7. QED
    BY <1>2, <2>6 DEF Promise!Next
<1>4. CASE ~v2
  <2>1. rows' = rows /\ acked' = acked
    BY <1>4 DEF Ingest, Reply, Acknowledged, Expected
  <2>2. QED
    BY <2>1 DEF Promise!vars
<1>5. QED
  BY <1>3, <1>4

LEMMA StepReports ==
  ASSUME IndInv, IndInv', [Next]_vars
  PROVE  [Promise!Next]_(Promise!vars)
<1>1. UNCHANGED <<rows, acked>> => UNCHANGED Promise!vars
  BY DEF Promise!vars
<1>2. UNCHANGED vars => UNCHANGED <<rows, acked>>
  BY DEF vars, receiptVars
<1>3. ASSUME ReceiptStep, UNCHANGED <<hostVars, catalogVars>>
      PROVE  [Promise!Next]_(Promise!vars)
  <2>1. ASSUME NEW p \in sent, Ingest(p)
        PROVE  [Promise!Next]_(Promise!vars)
    BY <1>3, <2>1, IngestReports, ReceiptStepInd DEF IndInv
  <2>2. ASSUME NEW p \in sent, Refuse(p) PROVE UNCHANGED <<rows, acked>>
    BY <2>2 DEF Refuse, Reply, Acknowledged
  <2>3. QED
    BY <1>1, <1>3, <2>1, <2>2 DEF ReceiptStep, Post, GiveUp, Redeploy
<1>4. CASE UNCHANGED receiptVars
  BY <1>1, <1>4 DEF receiptVars
<1>5. QED
  BY <1>1, <1>2, <1>3, <1>4
     DEF Next, Admit, PassGates, Enforce, Escalate, Resolve, Execute, Abandon,
         Tick

(***************************************************************************)
(* Retries and late arrivals put a call on record once, and post_receipt   *)
(* answers True only of a call on record.                                  *)
(***************************************************************************)
THEOREM ReceiptsAreEvidence == Spec => EvidenceKept
<1>1. Init => Promise!Init
  BY FS_EmptySet DEF Init, ReceiptsInit, Promise!Init
<1>2. IndInv /\ IndInv' /\ [Next]_vars => [Promise!Next]_(Promise!vars)
  BY StepReports
<1>3. QED
  BY <1>1, <1>2, Inductive, PTL DEF Spec, EvidenceKept, Promise!Spec
=============================================================================
