------------------------------ MODULE Coverage ------------------------------
(***************************************************************************)
(* Content across sources (src/core/coverage.rs), the minimum-copy floor   *)
(* (floors.rs) and the report of both (coverage_report.rs).  `loaded` maps *)
(* each source to its evidence, its status and its rows.                   *)
(***************************************************************************)
EXTENDS Evidence

EvidenceKinds == {"Complete", "Incomplete", "Unavailable", "NoContentHashes", "Unreachable"}
Statuses == {"ok", "incomplete", "stale_index", "db_missing", "archive_missing"}

Rows(loaded) == UNION {{[source |-> s, row |-> r] : r \in loaded[s].rows} : s \in DOMAIN loaded}

\* Input that group refuses as contradictory.
Contradictory(loaded) ==
  \E s \in DOMAIN loaded :
    \/ loaded[s].evidence = "Unavailable" /\ loaded[s].rows # {}
    \/ loaded[s].evidence = "NoContentHashes" /\ \E r \in loaded[s].rows : r.hash # None
    \/ \E r, q \in loaded[s].rows : r # q /\ r.id = q.id

(***************************************************************************)
(* The rows of one source: copies are regular files with a hash that can   *)
(* be believed and a name that is known; other regular files could be any  *)
(* content that their size does not rule out; links hold no bytes.         *)
(***************************************************************************)
Copies(rows, c) == {r \in Visible(rows) : r.entry = "file" /\ TrustedHash(r) = c}

UnknownContent(rows) ==
  {r \in Visible(rows) \union Uncertain(rows) :
     r.entry = "file" /\ (NameUncertain(r) \/ TrustedHash(r) = None)}

Aliases(rows, c) ==
  {r \in Visible(rows) \union Uncertain(rows) :
     r.entry = "hardlink" /\ r.hash = c /\ Copies(rows, c) # {}}

UnknownReason(r) ==
  CASE "READ_ERROR" \in r.flags -> "read_error"
    [] "READ_ERROR" \notin r.flags /\ "PAX_UNPARSED" \in r.flags -> "pax_unparsed"
    [] r.flags \intersect Unproven = {} /\ "SPARSE" \in r.flags -> "unsupported_sparse"
    [] OTHER -> IF NameUncertain(r) THEN "legacy_name_uncertain" ELSE "not_hashed"

ExclusionReason(rows, r) ==
  IF r \in Shadowed(rows) THEN "shadowed"
  ELSE IF r.entry = "symlink" THEN "symlink" ELSE "unmatched_hardlink"

\* Faulty variant: an unmatched hard link is not told.
ExcludedButHardlinks(rows) ==
  Shadowed(rows) \union {r \in Visible(rows) \union Uncertain(rows) : r.entry = "symlink"}

Excluded(rows) ==
  Shadowed(rows) \union
  {r \in Visible(rows) \union Uncertain(rows) :
     \/ r.entry = "symlink"
     \/ r.entry = "hardlink" /\ (r.hash = None \/ Copies(rows, r.hash) = {})}

-----------------------------------------------------------------------------
(***************************************************************************)
(* One group for each content that some source has a copy of.              *)
(***************************************************************************)
Grouped(loaded) == {c \in Content : \E s \in DOMAIN loaded : Copies(loaded[s].rows, c) # {}}

\* The length that the copies agree on.
GroupSize(loaded, c) ==
  LET sizes == {TrustedSize(e.row) : e \in {f \in Rows(loaded) : f.row \in Copies(loaded[f.source].rows, c)}}
               \ {None}
  IN IF Cardinality(sizes) = 1 THEN CHOOSE n \in sizes : TRUE ELSE None

\* Faulty variant: a row whose size is not to be trusted matches nothing.
CouldMatchSized(rows, size) ==
  {r \in UnknownContent(rows) : size = None \/ TrustedSize(r) = size}

CouldMatch(rows, size) ==
  {r \in UnknownContent(rows) : size = None \/ TrustedSize(r) \in {None, size}}

PresenceIn(loaded, s, c) ==
  CASE loaded[s].evidence = "Unreachable" -> "unknown"
    [] loaded[s].evidence # "Unreachable" /\ Copies(loaded[s].rows, c) # {} -> "present"
    [] OTHER -> IF loaded[s].evidence = "Complete"
                   /\ CouldMatch(loaded[s].rows, GroupSize(loaded, c)) = {}
                THEN "absent" ELSE "unknown"

Where(loaded, c, presence) == {s \in DOMAIN loaded : PresenceIn(loaded, s, c) = presence}

\* The count of sources with a copy, and whether it is more than a bound.
Replicas(loaded, c) ==
  [observed |-> Cardinality(Where(loaded, c, "present")),
   exact |-> Where(loaded, c, "unknown") = {}]

-----------------------------------------------------------------------------
(***************************************************************************)
(* The floor.  A copy counts when its source's status lets it.             *)
(***************************************************************************)
Counts(status) == status \in {"ok", "incomplete"}

TrustedIn(loaded, c) == {s \in Where(loaded, c, "present") : Counts(loaded[s].status)}

Verdict(loaded, c, params) ==
  IF Cardinality(TrustedIn(loaded, c)) >= params.minCopies THEN "meets_floor"
  ELSE IF Where(loaded, c, "unknown") # {} THEN "inconclusive" ELSE "below_floor"

OnlyCopy(loaded, c) ==
  Cardinality(TrustedIn(loaded, c)) = 1 /\ Where(loaded, c, "unknown") = {}

\* Content of a known length that the caller did not ask about.
OutOfScope(loaded, c, params) ==
  LET n == GroupSize(loaded, c) IN
  n # None /\ (n < params.minSize \/ (n = 0 /\ ~params.includeEmpty))

\* What evaluate and PathFilter::new refuse.
BadParams(params) == params.minCopies = 0 \/ params.kind \notin Kinds \union {None}

-----------------------------------------------------------------------------
(***************************************************************************)
(* The report.  A filter chooses which contents are told, and never which  *)
(* copies of a content: one row that matches brings all of them.           *)
(***************************************************************************)
PassesFilter(r, params) ==
  (params.kind = None \/ r.kind = params.kind) /\ r.path \in params.paths

GroupTold(loaded, c, params) ==
  \E s \in DOMAIN loaded : \E r \in Copies(loaded[s].rows, c) \union Aliases(loaded[s].rows, c) :
    PassesFilter(r, params)

GroupReport(loaded, c, params) ==
  [content |-> c, size |-> GroupSize(loaded, c), verdict |-> Verdict(loaded, c, params),
   onlyCopy |-> OnlyCopy(loaded, c), replicas |-> Replicas(loaded, c),
   trusted |-> TrustedIn(loaded, c), unknown |-> Where(loaded, c, "unknown"),
   protected |-> TrustedIn(loaded, c) \intersect params.protected]

\* Faulty variant: an incomplete source is not degraded.
DegradedUnavailable(loaded) == {s \in DOMAIN loaded : loaded[s].evidence = "Unavailable"}

Degraded(loaded) ==
  {s \in DOMAIN loaded : loaded[s].evidence # "Complete" \/ loaded[s].status # "ok"}

CoverageReport(loaded, params) ==
  LET told == {c \in Grouped(loaded) : GroupTold(loaded, c, params)}
      inScope == {c \in told : ~OutOfScope(loaded, c, params)}
      groups == {GroupReport(loaded, c, params) : c \in inScope}
      unknown == {e \in Rows(loaded) :
                    e.row \in UnknownContent(loaded[e.source].rows) /\ PassesFilter(e.row, params)}
  IN [groups |-> groups,
      excludedGroups |-> told \ inScope,
      unknown |-> {[row |-> e, reason |-> UnknownReason(e.row)] : e \in unknown},
      excludedRows |-> {[row |-> e, reason |-> ExclusionReason(loaded[e.source].rows, e.row)] :
                          e \in {f \in Rows(loaded) : f.row \in Excluded(loaded[f.source].rows)
                                                      /\ PassesFilter(f.row, params)}},
      complete |-> /\ Degraded(loaded) = {} /\ unknown = {}
                   /\ \A g \in groups : g.verdict # "inconclusive"]

=============================================================================
