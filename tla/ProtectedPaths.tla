--------------------------- MODULE ProtectedPaths ---------------------------
(***************************************************************************)
(* The protected-path guard: check_protected_write, called by a host's     *)
(* threads, with approvals that run out, an audit log that keeps the       *)
(* newest entries, and sinks registered while checks run.                  *)
(*                                                                         *)
(* Python decides.  The entry of a check also says whether the TypeScript  *)
(* port would have approved it.  Definitions named in TypeScript's case    *)
(* are the port's.                                                         *)
(***************************************************************************)
EXTENDS Glob, FiniteSets

CONSTANTS
  Path,               \* the paths that are written
  DEFAULT_PROTECTED_PATTERNS,
  ExtraPatterns,      \* what callers pass as extra_patterns
  Approvals,          \* the approvals callers try to construct
  NoApproval,         \* approval=None
  UNAUTHORIZED_SOURCES,
  Thread,             \* the host's threads
  MAX_AUDIT_LOG,      \* how many entries the audit log keeps
  MaxSinks,           \* bound: how many sinks are registered
  MaxChecks,          \* bound: how many checks are made
  MaxTime             \* bound: the clock stops here

ASSUME PatternsAssumption ==
  /\ Path \subseteq Seq(Char)
  /\ DEFAULT_PROTECTED_PATTERNS \in Seq(Pattern)
  /\ ExtraPatterns \subseteq Seq(Pattern)

ASSUME ApprovalsAssumption ==
  /\ \A a \in Approvals : a.path_scope \in Pattern /\ a.expires_at \in Nat
  /\ NoApproval \notin Approvals

ASSUME LimitsAssumption ==
  /\ MAX_AUDIT_LOG \in Nat \ {0} /\ MaxSinks \in Nat
  /\ MaxChecks \in Nat /\ MaxTime \in Nat

VARIABLES
  time,     \* the wall clock
  latest,   \* the entry of the check made in the last step, if one was
  begun,    \* history: for each check, by entry_id, the sinks there were then
  threads,  \* where each thread's check stands
  log,      \* _audit_log: the ids of the entries it holds, oldest first
  appended, \* history: every id appended since the log was cleared
  sinks     \* the ids each registered sink was called with

guardVars == <<time, latest, begun, threads, log, appended, sinks>>

-----------------------------------------------------------------------------
\* rsplit("/", 1)[-1]: what follows the last slash, of which there is one
Basename(path) ==
  {SubSeq(path, k + 1, Len(path)) :
     k \in {i \in 0 .. Len(path) :
             /\ i = 0 \/ path[i] = Slash
             /\ \A j \in i + 1 .. Len(path) : path[j] # Slash}}

Names(path) == {path} \cup Basename(path)

AllPatterns(extra) == DEFAULT_PROTECTED_PATTERNS \o extra

\* _matching_pattern # None
is_protected_path ==
  [path \in Path |-> [extra \in ExtraPatterns |->
     \E k \in DOMAIN AllPatterns(extra), name \in Names(path) :
       fnmatch(name, AllPatterns(extra)[k])]]

MatchesTS(path, pattern) ==
  Compiles(pattern) /\ \E name \in Names(path) : fnmatchTS(name, pattern)

\* matchingPattern raises when it meets a pattern that does not compile
\* before one that matches.
portRaises ==
  [path \in Path |-> [extra \in ExtraPatterns |->
     LET patterns == AllPatterns(extra) IN
     \E k \in DOMAIN patterns :
       /\ ~Compiles(patterns[k])
       /\ \A j \in 1 .. k - 1 : ~MatchesTS(path, patterns[j])]]

isProtectedPath ==
  [path \in Path |-> [extra \in ExtraPatterns |->
     \E k \in DOMAIN AllPatterns(extra) :
       MatchesTS(path, AllPatterns(extra)[k])]]

\* ProtectedWriteApproval.covers_path of either port
Scopes == {a.path_scope : a \in Approvals}

covers_path ==
  [path \in Path |-> [scope \in Scopes |-> fnmatch(path, scope)]]

coversPath ==
  [path \in Path |->
     [scope \in Scopes |-> Compiles(scope) /\ fnmatchTS(path, scope)]]

\* ProtectedWriteApproval.__post_init__ raises otherwise.
Constructible(approval) == approval.issued_by \notin UNAUTHORIZED_SOURCES

is_expired(approval) == time > approval.expires_at

-----------------------------------------------------------------------------
\* What check_protected_write finds, in the order it looks.
Reason(path, extra, approval) ==
  CASE ~is_protected_path[path][extra] -> "path_not_protected"
    [] is_protected_path[path][extra] /\ approval = NoApproval ->
         "no_approval_provided"
    [] OTHER ->
         IF approval.issued_by \in UNAUTHORIZED_SOURCES
           THEN "approval_source_forbidden"
         ELSE IF is_expired(approval) THEN "approval_expired"
         ELSE IF ~covers_path[path][approval.path_scope]
           THEN "approval_scope_mismatch"
         ELSE "valid_approval"

Approving == {"path_not_protected", "valid_approval"}

\* checkProtectedWrite of the port approves: it does not raise, be it
\* ProtectedWriteBlocked or SyntaxError.
portApproves(path, extra, approval) ==
  /\ ~portRaises[path][extra]
  /\ \/ ~isProtectedPath[path][extra]
     \/ /\ approval # NoApproval
        /\ approval.issued_by \notin UNAUTHORIZED_SOURCES
        /\ ~is_expired(approval)
        /\ coversPath[path][approval.path_scope]

Entry(path, extra, approval) ==
  [path |-> path, extra |-> extra, approval |-> approval,
   reason |-> Reason(path, extra, approval),
   port |-> portApproves(path, extra, approval)]

AuditLogEntry ==
  [path : Path, extra : ExtraPatterns, approval : Approvals \cup {NoApproval},
   reason : Approving \cup {"no_approval_provided", "approval_source_forbidden",
                            "approval_expired", "approval_scope_mismatch"},
   port : BOOLEAN]

Progress ==
  [at : {"idle", "decided", "sinking"}, entry : Nat, next : Nat]

GuardTypeOK ==
  /\ time \in 0 .. MaxTime
  /\ latest = <<>> \/ latest \in AuditLogEntry
  /\ begun \in Seq(0 .. MaxSinks) /\ Len(begun) <= MaxChecks
  /\ threads \in [Thread -> Progress]
  /\ log \in Seq(1 .. MaxChecks) /\ Len(log) <= MAX_AUDIT_LOG
  /\ appended \in Seq(1 .. MaxChecks)
  /\ sinks \in Seq(Seq(1 .. MaxChecks)) /\ Len(sinks) <= MaxSinks

Idle == [at |-> "idle", entry |-> 0, next |-> 0]

GuardInit ==
  /\ time = 0
  /\ latest = <<>>
  /\ begun = <<>>
  /\ threads = [t \in Thread |-> Idle]
  /\ log = <<>>
  /\ appended = <<>>
  /\ sinks = <<>>

\* The decision, at the time it is then, and the entry made of it.
Check(t, path, extra, approval) ==
  /\ threads[t].at = "idle"
  /\ Len(begun) < MaxChecks
  /\ approval # NoApproval => Constructible(approval)
  /\ latest' = Entry(path, extra, approval)
  /\ begun' = Append(begun, Len(sinks))
  /\ threads' = [threads EXCEPT ![t] =
                   [at |-> "decided", entry |-> Len(begun) + 1, next |-> 0]]
  /\ UNCHANGED <<time, log, appended, sinks>>

\* Defect: the entry just appended is the one that goes.
TrimmedNewest(entries) ==
  IF Len(entries) > MAX_AUDIT_LOG
  THEN SubSeq(entries, 1, Len(entries) - 1) ELSE entries

\* Defect: looks at the length before the entry was appended.
TrimmedLate(entries) ==
  IF Len(entries) - 1 > MAX_AUDIT_LOG THEN Tail(entries) ELSE entries

\* _audit_log.pop(0) when there is one too many
Trimmed(entries) ==
  IF Len(entries) > MAX_AUDIT_LOG THEN Tail(entries) ELSE entries

\* Under the lock.
AppendAudit(t) ==
  /\ threads[t].at = "decided"
  /\ log' = Trimmed(Append(log, threads[t].entry))
  /\ appended' = Append(appended, threads[t].entry)
  /\ threads' = [threads EXCEPT ![t].at = "sinking", ![t].next = 1]
  /\ latest' = <<>>
  /\ UNCHANGED <<time, begun, sinks>>

\* Defect: an exception from a sink ends the loop.
AfterSinkGivingUp(t, raised) ==
  IF raised THEN Len(sinks) + 1 ELSE threads[t].next + 1

AfterSink(t, raised) == threads[t].next + 1

\* Outside it, "for sink in _audit_sinks": the list as it is at each turn.
CallSink(t, raised) ==
  LET k == threads[t].next IN
  /\ threads[t].at = "sinking"
  /\ k <= Len(sinks)
  /\ sinks' = [sinks EXCEPT ![k] = Append(@, threads[t].entry)]
  /\ threads' = [threads EXCEPT ![t].next = AfterSink(t, raised)]
  /\ latest' = <<>>
  /\ UNCHANGED <<time, begun, log, appended>>

\* The entry is returned, or ProtectedWriteBlocked raised.
Return(t) ==
  /\ threads[t].at = "sinking"
  /\ threads[t].next > Len(sinks)
  /\ threads' = [threads EXCEPT ![t] = Idle]
  /\ latest' = <<>>
  /\ UNCHANGED <<time, begun, log, appended, sinks>>

RegisterSink ==
  /\ Len(sinks) < MaxSinks
  /\ sinks' = Append(sinks, <<>>)
  /\ latest' = <<>>
  /\ UNCHANGED <<time, begun, threads, log, appended>>

ClearAuditLog ==
  /\ log # <<>>
  /\ log' = <<>>
  /\ appended' = <<>>
  /\ latest' = <<>>
  /\ UNCHANGED <<time, begun, threads, sinks>>

TimePasses ==
  /\ time < MaxTime
  /\ time' = time + 1
  /\ latest' = <<>>
  /\ UNCHANGED <<begun, threads, log, appended, sinks>>

GuardNext ==
  \/ \E t \in Thread :
       \/ \E path \in Path, extra \in ExtraPatterns,
             a \in Approvals \cup {NoApproval} : Check(t, path, extra, a)
       \/ AppendAudit(t)
       \/ \E raised \in BOOLEAN : CallSink(t, raised)
       \/ Return(t)
  \/ RegisterSink \/ ClearAuditLog \/ TimePasses

GuardSpec == GuardInit /\ [][GuardNext]_guardVars

-----------------------------------------------------------------------------
Ids(seq) == {seq[k] : k \in DOMAIN seq}

\* The checks whose call has not come to its end.
Running == {threads[t].entry : t \in Thread} \ {0}

(* The audit log is the newest MAX_AUDIT_LOG of the entries appended since *)
(* it was cleared, in the order they were appended, however threads race.  *)
LogKeepsNewest ==
  LET n == Len(appended)
      dropped == IF n > MAX_AUDIT_LOG THEN n - MAX_AUDIT_LOG ELSE 0
  IN  log = SubSeq(appended, dropped + 1, n)

(* "Every blocked or approved write is recorded": a sink has the entry of  *)
(* every check that began after it was registered and has come to its end, *)
(* whichever sinks raise and however threads overlap, and has no entry     *)
(* twice.                                                                  *)
SinksMissNothing ==
  \A k \in DOMAIN sinks :
    /\ Cardinality(Ids(sinks[k])) = Len(sinks[k])
    /\ \A i \in DOMAIN begun \ Running :
         k <= begun[i] => i \in Ids(sinks[k])

(***************************************************************************)
(* The two ports.                                                          *)
(***************************************************************************)
\* No question mark and no bracket expression.
OnlyStars(p) == p.classes = {} /\ \A j \in DOMAIN p.text : p.text[j] # Query

\* The shape of the defaults: no star but at the end.
StarsTrail(p) ==
  OnlyStars(p) /\ \A j \in DOMAIN p.text : p.text[j] \in Stars => j = Len(p.text)

\* p with the other kind of star at its end
Twin(p, q) ==
  /\ q.classes = p.classes /\ Len(q.text) = Len(p.text)
  /\ \A j \in 1 .. Len(p.text) - 1 : q.text[j] = p.text[j]
  /\ {p.text[Len(p.text)], q.text[Len(q.text)]} = Stars

(* The path begins like a pattern that has a star and no twin, and what is *)
(* left for the star crosses a slash, or is nothing for a double star:     *)
(* of the defaults, a path below a directory named like .env.*             *)
HalfStarred(path, patterns) ==
  \E k \in DOMAIN patterns : \E name \in Names(path) :
    LET p == patterns[k]
        n == Len(p.text)
        rest == SubSeq(name, n, Len(name))
    IN  /\ n > 0 /\ n <= Len(name) + 1 /\ p.text[n] \in Stars
        /\ \A j \in 1 .. n - 1 : name[j] = p.text[j]
        /\ ~\E m \in DOMAIN patterns : Twin(p, patterns[m])
        /\ IF p.text[n] = Star THEN ~Lacks(rest, {Slash}) ELSE rest = <<>>

(* The ports read a star differently.  Where patterns have nothing else to *)
(* differ in, the port protects no path that Python does not.  As the      *)
(* defaults list each directory with one star and with two, the converse   *)
(* holds too, but for a line break or a HalfStarred path; and then the     *)
(* port approves no write that Python would block.                         *)
PortsProtectAlike ==
  latest # <<>> =>
    LET path == latest.path
        extra == latest.extra
        patterns == AllPatterns(extra)
    IN  /\ (\A k \in DOMAIN patterns : OnlyStars(patterns[k])) =>
             (isProtectedPath[path][extra] => is_protected_path[path][extra])
        /\ /\ \A k \in DOMAIN patterns : StarsTrail(patterns[k])
           /\ Lacks(path, LineBreaks) /\ ~HalfStarred(path, patterns)
           => /\ is_protected_path[path][extra] => isProtectedPath[path][extra]
              /\ \/ latest.approval = NoApproval
                 \/ OnlyStars(latest.approval.path_scope)
                 => (latest.port => latest.reason \in Approving)
=============================================================================
