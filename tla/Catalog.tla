------------------------------ MODULE Catalog ------------------------------
(***************************************************************************)
(* The tool catalog: ARIA publishes versions of it, a host fetches it with *)
(* an ETag and checks the five gates against its snapshot.  The versions   *)
(* are numbered, and a version's number is its ETag; Catalogs[v] maps the  *)
(* tools of version v to their status and score.  The server is external.  *)
(***************************************************************************)
EXTENDS Naturals, Sequences, FiniteSets

CONSTANTS
  Catalogs,        \* the versions ARIA publishes, in order
  ScoreThreshold   \* score_threshold

ASSUME CatalogAssumption ==
  /\ Len(Catalogs) \in Nat \ {0} /\ DOMAIN Catalogs = 1 .. Len(Catalogs)
  /\ ScoreThreshold \in Nat
  /\ \A v \in DOMAIN Catalogs : \A t \in DOMAIN Catalogs[v] :
       Catalogs[v][t].clawmark_score \in Nat

VARIABLES
  server,   \* the version ARIA serves
  local,    \* the host's snapshot and its ETag
  fetch,    \* the fetch_catalog call in progress
  fresh     \* history: the versions served since the last fetch that
            \* succeeded was made

catalogVars == <<server, local, fetch, fresh>>

NoCatalog == 0
NoFetch == [at |-> "idle"]
Version == DOMAIN Catalogs

CatalogTypeOK ==
  /\ server \in Version
  /\ local \in [state : Version \cup {NoCatalog}, etag : Version \cup {NoCatalog}]
  /\ fetch \in {NoFetch}
       \cup [at : {"asked"}, etag : Version \cup {NoCatalog}, since : SUBSET Version]
       \cup [at : {"answered"}, status : {200, 304}, version : Version,
             since : SUBSET Version]
  /\ fresh \subseteq Version

CatalogInit ==
  /\ server = 1
  /\ local = [state |-> NoCatalog, etag |-> NoCatalog]
  /\ fetch = NoFetch
  /\ fresh = {1}

\* External: a tool is suspended, scored anew, added.
Publish ==
  /\ server + 1 \in Version
  /\ server' = server + 1
  /\ fresh' = fresh \cup {server + 1}
  /\ fetch' = IF fetch = NoFetch THEN NoFetch
              ELSE [fetch EXCEPT !.since = @ \cup {server + 1}]
  /\ UNCHANGED local

\* If-None-Match is sent when there is an ETag.
AskCatalog ==
  /\ fetch = NoFetch
  /\ fetch' = [at |-> "asked", etag |-> local.etag, since |-> {server}]
  /\ UNCHANGED <<server, local, fresh>>

\* External.
ServeCatalog ==
  /\ fetch.at = "asked"
  /\ fetch' = [at |-> "answered", version |-> server, since |-> fetch.since,
               status |-> IF fetch.etag = server THEN 304 ELSE 200]
  /\ UNCHANGED <<server, local, fresh>>

\* Defect: the ETag is taken before the body is read.
AfterBadBodyTagged(reply) == [local EXCEPT !.etag = reply.version]

\* resp.json() or from_dict raises.
AfterBadBody(reply) == local

ReceiveCatalog(readable) ==
  /\ fetch.at = "answered"
  /\ fetch.status = 304 => readable
  /\ local' = CASE fetch.status = 304 -> local
                [] fetch.status = 200 /\ readable ->
                     [state |-> fetch.version, etag |-> fetch.version]
                [] OTHER -> AfterBadBody(fetch)
  /\ fresh' = IF readable THEN fetch.since ELSE fresh
  /\ fetch' = NoFetch
  /\ UNCHANGED server

\* "The caller MUST handle these and fail-open (use stale catalog + log)."
FetchFails ==
  /\ fetch # NoFetch
  /\ fetch' = NoFetch
  /\ UNCHANGED <<server, local, fresh>>

CatalogStep ==
  \/ Publish \/ AskCatalog \/ ServeCatalog \/ FetchFails
  \/ \E readable \in BOOLEAN : ReceiveCatalog(readable)

-----------------------------------------------------------------------------
is_known(v, tool) == tool \in DOMAIN Catalogs[v]

is_active(v, tool) == is_known(v, tool) /\ Catalogs[v][tool].status = "active"

Scored(v, tool) == Catalogs[v][tool].clawmark_score >= ScoreThreshold

\* The gates of run_gate_check in its order, and whether the tool passes.
\* delegation is the set of what the caller knows: empty, or one Boolean.
run_gate_check(tool, state, revoked, delegation, enabled) ==
  enabled /\ state # NoCatalog =>
    /\ is_known(state, tool)
    /\ is_active(state, tool)
    /\ tool \notin revoked
    /\ Scored(state, tool)
    /\ FALSE \notin delegation
=============================================================================
