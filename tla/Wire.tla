---------------------------------- MODULE Wire ----------------------------------
(***************************************************************************)
(* Documents as bytes: the writers and readers of src/src/canonical.cpp    *)
(* and src/src/wire.cpp, the payload codecs of src/src/protocol.cpp and    *)
(* the record payloads of src/src/store.cpp.                               *)
(*                                                                         *)
(* The put side and the get side of a document are two pieces of code, and *)
(* two tables here: put_x lists what the writer writes, in its order and   *)
(* widths, get_x what the reader reads and which values it lets pass.  A   *)
(* document is written whole, may be damaged, and is read.  Checksums are  *)
(* the business of Store and FrameDecoder: a reader must be right about    *)
(* any bytes, since a peer may checksum whatever it likes.                 *)
(*                                                                         *)
(* A byte has Base values rather than 256.  Widths in bytes are real.      *)
(***************************************************************************)
EXTENDS Integers, Sequences, Functions

CONSTANTS
    Base,     \* values of a byte
    limits,   \* the limits in force, see RealLimits
    Documents \* the documents considered: the names of the parts, and the parts

\* Limits on lists and on strings, by what their lengths are written as.
ListLimits ==
    {"max_candidates_per_set", "max_assessments_reported", "max_indeterminate_reported",
     "max_explanation_steps", "max_lineage"}
StringLimits == {"max_name_bytes", "max_reason_bytes"}

\* The largest reason has two bytes, and lengths have two or four.
ASSUME WireAssumption ==
    /\ Base \in Nat /\ Base >= 14
    /\ ListLimits \cup StringLimits \cup {"max_record_payload"} \subseteq DOMAIN limits
    /\ \A name \in DOMAIN limits : limits[name] \in Nat
    /\ \A name \in ListLimits : limits[name] < Base * Base * Base * Base
    /\ \A name \in StringLimits : limits[name] < Base * Base

VARIABLES
    kind,   \* the document's parts, by name: a record, an answer, or a header and a body
    doc,    \* the document: one value for each part
    bytes,  \* what was written, or what became of it
    at,     \* "made", "written" or "unwritable", "read"
    damage, \* what happened to the bytes: "none", "cut", "altered"
    value   \* the reader after reading them

vars == <<kind, doc, bytes, at, damage, value>>

-----------------------------------------------------------------------------
(* ByteWriter and ByteReader. *)

\* How many values w bytes have.
Values[w \in 0 .. 8] == IF w = 0 THEN 1 ELSE Values[w - 1] * Base

\* Little endian, as append_u16, append_u32 and append_u64.
Digits(n, width) == [i \in 1 .. width |-> (n \div Values[i - 1]) % Base]

\* read_u16_at, read_u32_at and read_u64_at.
Number(b, offset, width) ==
    LET n[i \in 0 .. width] ==
          IF i = 0 THEN 0 ELSE n[i - 1] * Base + b[offset + width - i + 1]
    IN  n[width]

\* Two's complement: an i64 travels as the u64 with the same bits.
Half == Values[8] \div 2
Unsigned(n) == n % Values[8]
Signed(n) == IF n < Half THEN n ELSE n - Values[8]

\* Field types.  most is the largest value that a reader lets pass; for lists and
\* strings it is the name of the limit.  The elements of a list are documents
\* without lists.
Top(width) == Values[width] - 1
U(width) == [as |-> "number", width |-> width, most |-> Top(width)]
U8 == U(1)
U16 == U(2)
U32 == U(4)
U64 == U(8)
I64 == [as |-> "signed", width |-> 8, most |-> Top(8)]
List(name, most) == [as |-> "list", of |-> name, most |-> most]
String(most) == [as |-> "string", most |-> most]

\* An enumeration with more values than a byte of the model is cut short, so that
\* some byte is outside it.
Least(m, n) == IF m <= n THEN m ELSE n
Enum(most) == [U8 EXCEPT !.most = Least(most, Base - 2)]

\* Mutant of Bool: any byte but 0 is true.
Truthy == [as |-> "bool", width |-> 1, most |-> Top(1)]
Bool == [as |-> "bool", width |-> 1, most |-> 1]

max_reason_value == 91
max_code_value == 19
Reason == [U16 EXCEPT !.most = max_reason_value]
Code == Enum(max_code_value)

\* Tables: a name and a type for each field.  A document that is part of another
\* one has no bytes of its own: its fields stand among the others, under the name
\* of the part.
Each(names, type) == [i \in DOMAIN names |-> << <<names[i]>>, type>>]
One(name, type) == Each(<<name>>, type)
Under(name, table) == [i \in DOMAIN table |-> << <<name>> \o table[i][1], table[i][2]>>]

-----------------------------------------------------------------------------
(* Domain values, src/src/wire.cpp. *)

put_authority ==
    Each(<<"topology", "path_authority", "policy", "obligations", "epoch", "boot">>, U64)

\* Mutant of get_authority: two generations change places.
get_authority_swapped ==
    Each(<<"topology", "path_authority", "obligations", "policy", "epoch", "boot">>, U64)

get_authority ==
    Each(<<"topology", "path_authority", "policy", "obligations", "epoch", "boot">>, U64)

put_evidence ==
    Each(<<"id", "path">>, U64)
      \o Each(<<"freshness", "eligibility", "reachability", "capacity">>, U8)
      \o One("capabilities", U32)
      \o Each(<<"health_ppm", "cost_units">>, I64)
      \o One("observation_seq", U64)
      \o Under("observed_under", put_authority)
      \o One("provenance", U8)

get_evidence ==
    Each(<<"id", "path">>, U64)
      \o Each(<<"freshness", "eligibility", "reachability", "capacity">>, Enum(2))
      \o One("capabilities", U32)
      \o Each(<<"health_ppm", "cost_units">>, I64)
      \o One("observation_seq", U64)
      \o Under("observed_under", get_authority)
      \o One("provenance", Enum(2))

put_effect ==
    Each(<<"id", "path", "observation_seq">>, U64)
      \o One("effect_verified", Bool)
      \o Under("observed_under", put_authority)
      \o One("provenance", U8)

get_effect ==
    Each(<<"id", "path", "observation_seq">>, U64)
      \o One("effect_verified", Bool)
      \o Under("observed_under", get_authority)
      \o One("provenance", Enum(2))

put_obligations ==
    One("generation", U64)
      \o One("required_capabilities", U32)
      \o Each(<<"min_health_ppm", "max_cost_units">>, I64)
      \o Each(<<"require_reachable", "require_capacity", "require_fresh_evidence">>, Bool)

get_obligations ==
    One("generation", U64)
      \o One("required_capabilities", U32)
      \o Each(<<"min_health_ppm", "max_cost_units">>, I64)
      \o Each(<<"require_reachable", "require_capacity", "require_fresh_evidence">>, Bool)

put_policy ==
    One("generation", U64)
      \o Each(<<"w_health", "w_cost", "w_rank", "w_capability", "min_score">>, I64)
      \o Each(<<"search_limit", "max_retained_attempts", "max_revalidations">>, U32)
      \o Each(<<"allow_unknown_skip", "require_verified_effect">>, Bool)

get_policy ==
    One("generation", U64)
      \o Each(<<"w_health", "w_cost", "w_rank", "w_capability", "min_score">>, I64)
      \o Each(<<"search_limit", "max_retained_attempts", "max_revalidations">>, U32)
      \o Each(<<"allow_unknown_skip", "require_verified_effect">>, Bool)

put_candidate ==
    One("path", U64) \o One("upstream_rank", U32) \o One("withdrawn", Bool)
      \o Under("evidence", put_evidence) \o Under("authority", put_authority)

get_candidate ==
    One("path", U64) \o One("upstream_rank", U32) \o One("withdrawn", Bool)
      \o Under("evidence", get_evidence) \o Under("authority", get_authority)

put_set ==
    Each(<<"id", "generation">>, U64) \o One("completeness", U8)
      \o One("candidates", List("candidate", "max_candidates_per_set"))

get_set ==
    Each(<<"id", "generation">>, U64) \o One("completeness", Enum(2))
      \o One("candidates", List("candidate", "max_candidates_per_set"))

put_terms == Each(<<"health", "cost", "rank", "capability", "total">>, I64)
get_terms == Each(<<"health", "cost", "rank", "capability", "total">>, I64)

put_assessment ==
    One("path", U64) \o One("upstream_rank", U32) \o Under("terms", put_terms)
      \o One("verdict", U8) \o One("reason", U16) \o One("authority", U8)

get_assessment ==
    One("path", U64) \o One("upstream_rank", U32) \o Under("terms", get_terms)
      \o One("verdict", Enum(3)) \o One("reason", Reason) \o One("authority", Enum(3))

put_step == One("reason", U16) \o One("value", I64)
get_step == One("reason", Reason) \o One("value", I64)

put_path_id == One("value", U64)
get_path_id == One("value", U64)

\* The counters of the selection are not part of the document: they depend on
\* the order in which the candidates came.
put_decision ==
    One("id", U64) \o One("outcome", U8) \o One("authority_kind", U8)
      \o Each(<<"incumbent", "set", "set_generation", "policy_generation",
                "obligations_generation">>, U64)
      \o Under("basis", put_authority)
      \o Each(<<"attempt", "selected">>, U64)
      \o One("ranked", List("assessment", "max_assessments_reported"))
      \o One("indeterminate_above", List("path_id", "max_indeterminate_reported"))
      \o One("explanation", List("step", "max_explanation_steps"))
      \o Each(<<"examined", "supplied">>, U64)
      \o Each(<<"search_limited", "set_complete">>, Bool)
      \o One("reason", U16) \o One("provenance", U8)

get_decision ==
    One("id", U64) \o One("outcome", Enum(18)) \o One("authority_kind", Enum(5))
      \o Each(<<"incumbent", "set", "set_generation", "policy_generation",
                "obligations_generation">>, U64)
      \o Under("basis", get_authority)
      \o Each(<<"attempt", "selected">>, U64)
      \o One("ranked", List("assessment", "max_assessments_reported"))
      \o One("indeterminate_above", List("path_id", "max_indeterminate_reported"))
      \o One("explanation", List("step", "max_explanation_steps"))
      \o Each(<<"examined", "supplied">>, U64)
      \o Each(<<"search_limited", "set_complete">>, Bool)
      \o One("reason", Reason) \o One("provenance", Enum(2))

put_request ==
    One("incumbent", U64) \o One("condition", U8)
      \o Each(<<"set", "set_generation", "policy_generation", "obligations_generation",
                "topology_generation", "path_authority_generation", "epoch", "boot",
                "attempt">>, U64)

get_request ==
    One("incumbent", U64) \o One("condition", Enum(2))
      \o Each(<<"set", "set_generation", "policy_generation", "obligations_generation",
                "topology_generation", "path_authority_generation", "epoch", "boot",
                "attempt">>, U64)

put_attempt ==
    Each(<<"id", "epoch", "boot", "incumbent", "selected", "set", "set_generation">>, U64)
      \o Under("basis", put_authority) \o One("state", U8) \o One("terminal_reason", U16)
      \o Each(<<"begin_sequence", "terminal_sequence">>, U64) \o One("revalidations", U32)

get_attempt ==
    Each(<<"id", "epoch", "boot", "incumbent", "selected", "set", "set_generation">>, U64)
      \o Under("basis", get_authority) \o One("state", Enum(9))
      \o One("terminal_reason", Reason)
      \o Each(<<"begin_sequence", "terminal_sequence">>, U64) \o One("revalidations", U32)

put_fence ==
    Each(<<"id", "epoch", "boot", "attempt", "path">>, U64) \o One("reason", U16)
      \o Under("at", put_authority) \o One("sequence", U64)

get_fence ==
    Each(<<"id", "epoch", "boot", "attempt", "path">>, U64) \o One("reason", Reason)
      \o Under("at", get_authority) \o One("sequence", U64)

put_lineage ==
    Each(<<"decision", "attempt", "epoch", "boot">>, U64) \o One("outcome", U8)
      \o Each(<<"incumbent", "selected", "set">>, U64) \o Under("basis", put_authority)
      \o One("reason", U16) \o One("sequence", U64)

get_lineage ==
    Each(<<"decision", "attempt", "epoch", "boot">>, U64) \o One("outcome", Enum(18))
      \o Each(<<"incumbent", "selected", "set">>, U64) \o Under("basis", get_authority)
      \o One("reason", Reason) \o One("sequence", U64)

-----------------------------------------------------------------------------
(* Messages, src/src/protocol.cpp. *)

put_header == Each(<<"session", "epoch", "boot", "request_sequence">>, U64)
get_header == Each(<<"session", "epoch", "boot", "request_sequence">>, U64)

put_hello ==
    One("protocol", U16) \o One("client", String("max_name_bytes")) \o One("nonce", U64)
get_hello ==
    One("protocol", U16) \o One("client", String("max_name_bytes")) \o One("nonce", U64)

put_hello_ack ==
    One("protocol", U16) \o Each(<<"session", "epoch", "boot", "incarnation">>, U64)
      \o Under("authority", put_authority) \o One("max_requests_per_session", U64)
get_hello_ack ==
    One("protocol", U16) \o Each(<<"session", "epoch", "boot", "incarnation">>, U64)
      \o Under("authority", get_authority) \o One("max_requests_per_session", U64)

put_error ==
    One("code", U8) \o One("reason", U16) \o One("detail", String("max_reason_bytes"))
get_error ==
    One("code", Code) \o One("reason", Reason) \o One("detail", String("max_reason_bytes"))

put_fabric_stats ==
    Each(<<"promotions_authorized", "promotions_committed", "promotions_refused",
           "promotions_indeterminate", "fences_recorded", "stale_completions_rejected",
           "rollbacks", "reversions", "revalidations", "journal_records",
           "snapshots_written", "restarts", "evidence_accepted", "evidence_rejected",
           "attempts_dropped">>, U64)
get_fabric_stats ==
    Each(<<"promotions_authorized", "promotions_committed", "promotions_refused",
           "promotions_indeterminate", "fences_recorded", "stale_completions_rejected",
           "rollbacks", "reversions", "revalidations", "journal_records",
           "snapshots_written", "restarts", "evidence_accepted", "evidence_rejected",
           "attempts_dropped">>, U64)

put_recovery ==
    One("snapshot_loaded", Bool)
      \o Each(<<"snapshot_sequence", "records_replayed", "records_skipped">>, U64)
      \o Each(<<"torn_tail_present", "torn_tail_recovered">>, Bool)
      \o One("truncated_bytes", U64)
      \o Each(<<"inspection_only", "journal_absent">>, Bool) \o One("journal_bytes", U64)
get_recovery ==
    One("snapshot_loaded", Bool)
      \o Each(<<"snapshot_sequence", "records_replayed", "records_skipped">>, U64)
      \o Each(<<"torn_tail_present", "torn_tail_recovered">>, Bool)
      \o One("truncated_bytes", U64)
      \o Each(<<"inspection_only", "journal_absent">>, Bool) \o One("journal_bytes", U64)

put_status ==
    Each(<<"incarnation", "epoch", "boot">>, U64) \o Under("authority", put_authority)
      \o Under("stats", put_fabric_stats) \o Under("recovery", put_recovery)
      \o Each(<<"active_sessions", "requests_handled">>, U64)
      \o Each(<<"policy_installed", "obligations_installed">>, Bool)
      \o Each(<<"alternate_sets", "active_attempts", "evidence_entries",
                "fencing_events">>, U64)
get_status ==
    Each(<<"incarnation", "epoch", "boot">>, U64) \o Under("authority", get_authority)
      \o Under("stats", get_fabric_stats) \o Under("recovery", get_recovery)
      \o Each(<<"active_sessions", "requests_handled">>, U64)
      \o Each(<<"policy_installed", "obligations_installed">>, Bool)
      \o Each(<<"alternate_sets", "active_attempts", "evidence_entries",
                "fencing_events">>, U64)

put_promote_response == Under("decision", put_decision) \o Each(<<"grant", "attempt">>, U64)
get_promote_response == Under("decision", get_decision) \o Each(<<"grant", "attempt">>, U64)

put_attempt_response == One("found", Bool) \o Under("record", put_attempt)
get_attempt_response == One("found", Bool) \o Under("record", get_attempt)

put_lineage_response ==
    One("truncated", Bool) \o One("entries", List("lineage", "max_lineage"))
get_lineage_response ==
    One("truncated", Bool) \o One("entries", List("lineage", "max_lineage"))

put_effect_body == One("attempt", U64) \o Under("effect", put_effect)
get_effect_body == One("attempt", U64) \o Under("effect", get_effect)

put_abandon_body == One("attempt", U64) \o One("reason", U16)
get_abandon_body == One("attempt", U64) \o One("reason", Reason)

put_rollback_body == One("attempt", U64) \o Under("evidence", put_evidence)
get_rollback_body == One("attempt", U64) \o Under("evidence", get_evidence)

put_fence_body == One("path", U64) \o One("reason", U16)
get_fence_body == One("path", U64) \o One("reason", Reason)

put_attempt_body == One("attempt", U64)
get_attempt_body == One("attempt", U64)

put_lineage_body == One("limit", U32)
get_lineage_body == One("limit", U32)

-----------------------------------------------------------------------------
(* Record payloads of their own, src/src/store.cpp. *)

put_epoch ==
    Under("authority", put_authority)
      \o Each(<<"restart_count", "attempt_sequence", "fence_sequence", "decision_sequence">>, U64)
get_epoch ==
    Under("authority", get_authority)
      \o Each(<<"restart_count", "attempt_sequence", "fence_sequence", "decision_sequence">>, U64)

put_counters ==
    Each(<<"attempt_sequence", "fence_sequence", "decision_sequence", "fence_overflow",
           "attempts_dropped">>, U64) \o One("lineage_truncated", Bool)
get_counters ==
    Each(<<"attempt_sequence", "fence_sequence", "decision_sequence", "fence_overflow",
           "attempts_dropped">>, U64) \o One("lineage_truncated", Bool)

-----------------------------------------------------------------------------
(* The tables together. *)

Put ==
    [authority |-> put_authority, evidence |-> put_evidence,
     obligations |-> put_obligations, policy |-> put_policy,
     candidate |-> put_candidate, set |-> put_set, assessment |-> put_assessment,
     step |-> put_step, path_id |-> put_path_id, request |-> put_request,
     attempt |-> put_attempt, fence |-> put_fence, lineage |-> put_lineage,
     header |-> put_header, hello |-> put_hello, hello_ack |-> put_hello_ack,
     error |-> put_error, status |-> put_status,
     promote_response |-> put_promote_response,
     attempt_response |-> put_attempt_response,
     lineage_response |-> put_lineage_response, effect_body |-> put_effect_body,
     abandon_body |-> put_abandon_body, rollback_body |-> put_rollback_body,
     fence_body |-> put_fence_body, attempt_body |-> put_attempt_body,
     lineage_body |-> put_lineage_body, epoch |-> put_epoch,
     counters |-> put_counters]

Get ==
    [authority |-> get_authority, evidence |-> get_evidence,
     obligations |-> get_obligations, policy |-> get_policy,
     candidate |-> get_candidate, set |-> get_set, assessment |-> get_assessment,
     step |-> get_step, path_id |-> get_path_id, request |-> get_request,
     attempt |-> get_attempt, fence |-> get_fence, lineage |-> get_lineage,
     header |-> get_header, hello |-> get_hello, hello_ack |-> get_hello_ack,
     error |-> get_error, status |-> get_status,
     promote_response |-> get_promote_response,
     attempt_response |-> get_attempt_response,
     lineage_response |-> get_lineage_response, effect_body |-> get_effect_body,
     abandon_body |-> get_abandon_body, rollback_body |-> get_rollback_body,
     fence_body |-> get_fence_body, attempt_body |-> get_attempt_body,
     lineage_body |-> get_lineage_body, epoch |-> get_epoch,
     counters |-> get_counters]

\* What the elements of lists are.
Rows == {"candidate", "assessment", "path_id", "step", "lineage"}

Records ==
    {"policy", "obligations", "set", "fence", "attempt", "lineage", "epoch", "counters"}

Messages ==
    {"hello", "hello_ack", "error", "status", "promote_response", "attempt_response",
     "lineage_response", "header"}

Bodies ==
    {"policy", "obligations", "set", "evidence", "authority", "request", "effect_body",
     "abandon_body", "rollback_body", "fence_body", "attempt_body", "lineage_body"}

Kinds == {<<name>> : name \in Records \cup Messages} \cup {<<"header", name>> : name \in Bodies}

-----------------------------------------------------------------------------
(* validate(), where a reader calls it. *)

ValidEvidence(v, part) ==
    /\ v[part \o <<"path">>] # 0
    /\ v[part \o <<"health_ppm">>] \in 0 .. limits.health_scale
    /\ v[part \o <<"cost_units">>] \in 0 .. limits.cost_scale

ValidPolicy(v) ==
    LET quarter == (Half - 1) \div 4
    IN  /\ v[<<"generation">>] # 0
        /\ \A w \in {"w_health", "w_cost", "w_rank", "w_capability"} :
             v[<<w>>] \in -limits.max_weight .. limits.max_weight
        /\ v[<<"search_limit">>] \in 1 .. limits.max_search_limit
        /\ v[<<"max_retained_attempts">>] \in 1 .. limits.max_attempts
        /\ v[<<"max_revalidations">>] <= 1024
        /\ v[<<"min_score">>] \in -quarter .. quarter

\* No partial sum overflows, and the total is the sum.
ValidTerms(v) ==
    LET InRange(n) == n >= -Half /\ n < Half
        two == v[<<"terms", "health">>] + v[<<"terms", "cost">>]
        three == two + v[<<"terms", "rank">>]
        four == three + v[<<"terms", "capability">>]
    IN  InRange(two) /\ InRange(three) /\ InRange(four) /\ four = v[<<"terms", "total">>]

\* The readers that validate do so after their last field, but for the terms of an
\* assessment, which come before its last fields.  It makes no difference to what
\* is refused.
Valid(name, v) ==
    CASE name = "assessment" -> ValidTerms(v)
      [] name = "obligations" ->
           /\ v[<<"generation">>] # 0
           /\ v[<<"min_health_ppm">>] \in 0 .. limits.health_scale
           /\ v[<<"max_cost_units">>] \in 0 .. limits.cost_scale
      [] name = "policy" -> ValidPolicy(v)
      [] name = "candidate" ->
           /\ v[<<"path">>] # 0 /\ v[<<"upstream_rank">>] <= limits.rank_scale
           /\ v[<<"evidence", "path">>] = v[<<"path">>]
           /\ ValidEvidence(v, <<"evidence">>)
      [] name = "set" ->
           /\ v[<<"id">>] # 0 /\ v[<<"generation">>] # 0
           /\ \A i, j \in DOMAIN v[<<"candidates">>] :
                v[<<"candidates">>][i][<<"path">>] = v[<<"candidates">>][j][<<"path">>] => i = j
      [] name = "lineage_body" -> v[<<"limit">>] \in 1 .. limits.max_lineage
      [] OTHER -> TRUE

-----------------------------------------------------------------------------
(* Writing and reading. *)

\* Strings are clipped before they are written: by connect, and by the encoder
\* of an error.
Clipped(s, most) == SubSeq(s, 1, Least(Len(s), limits[most]))

\* What was written one after the other.
Concat(ss) ==
    LET c[i \in 0 .. Len(ss)] == IF i = 0 THEN <<>> ELSE c[i - 1] \o ss[i]
    IN  c[Len(ss)]

Plain == {"number", "signed", "bool"}

\* The number that v travels as.
Carried(type, v) ==
    CASE type.as = "number" -> v
      [] type.as = "signed" -> Unsigned(v)
      [] type.as = "bool" -> IF v THEN 1 ELSE 0

PutPlain(type, v) == Digits(Carried(type, v), type.width)

PutRow(name, v) ==
    Concat([i \in DOMAIN Put[name] |-> PutPlain(Put[name][i][2], v[Put[name][i][1]])])

PutField(type, v) ==
    CASE type.as = "string" ->
           Digits(Len(Clipped(v, type.most)), 2) \o Clipped(v, type.most)
      [] type.as = "list" ->
           Digits(Len(v), 4) \o Concat([i \in DOMAIN v |-> PutRow(type.of, v[i])])
      [] OTHER -> PutPlain(type, v)

PutDoc(name, v) ==
    Concat([i \in DOMAIN Put[name] |-> PutField(Put[name][i][2], v[Put[name][i][1]])])

Written(parts, values) == Concat([i \in DOMAIN parts |-> PutDoc(parts[i], values[i])])

\* A writer that runs out of room has failed, and its bytes are not used.
Overflows(out) == Len(out) > limits.max_record_payload

encode(parts, values) ==
    LET out == Written(parts, values) IN IF Overflows(out) THEN <<>> ELSE out

\* The reader after a value that ends at the offset, and after a failure.
Done(offset, v) == [ok |-> TRUE, offset |-> offset, value |-> v]
Refused(offset) == [ok |-> FALSE, offset |-> offset, value |-> 0]

\* What the number n means.
Understood(type, n) ==
    CASE type.as = "number" -> n
      [] type.as = "signed" -> Signed(n)
      [] type.as = "bool" -> n # 0

GetPlain(type, b, offset) ==
    LET n == Number(b, offset, type.width)
    IN  IF offset + type.width > Len(b) THEN Refused(offset)
        ELSE IF n > type.most THEN Refused(offset)
        ELSE Done(offset + type.width, Understood(type, n))

\* One thing more: reader[p] is the reader after it, if it starts at p.  The first
\* failure stays: nothing is read after it.
After(before, reader) ==
    LET got == reader[before.offset]
    IN  IF ~before.ok THEN before
        ELSE IF ~got.ok THEN Refused(before.offset)
        ELSE Done(got.offset, Append(before.value, got.value))

\* n things one after the other, the i-th of them with readers[i].
Chain(n, readers, offset) ==
    LET c[i \in 0 .. n] == IF i = 0 THEN Done(offset, <<>>) ELSE After(c[i - 1], readers[i])
    IN  c[n]

\* The document with these values in its fields, if it is a valid one.
Named(table, values) ==
    [x \in {table[i][1] : i \in DOMAIN table} |->
       values[CHOOSE i \in DOMAIN table : table[i][1] = x]]

Checked(name, r) ==
    LET v == Named(Get[name], r.value)
    IN  IF ~r.ok THEN r ELSE IF Valid(name, v) THEN Done(r.offset, v) ELSE Refused(r.offset)

GetRow(name, b, offset) ==
    LET readers == [i \in DOMAIN Get[name] |->
                       [p \in 0 .. Len(b) |-> GetPlain(Get[name][i][2], b, p)]]
    IN  Checked(name, Chain(Len(Get[name]), readers, offset))

GetString(type, b, offset) ==
    LET count == GetPlain(U16, b, offset)
        end == count.offset + count.value
    IN  IF ~count.ok THEN count
        ELSE IF count.value > limits[type.most] \/ end > Len(b) THEN Refused(offset)
        ELSE Done(end, SubSeq(b, count.offset + 1, end))

GetList(type, b, offset) ==
    LET count == GetPlain(U32, b, offset)
        readers == [i \in 1 .. count.value |-> [p \in 0 .. Len(b) |-> GetRow(type.of, b, p)]]
    IN  IF ~count.ok THEN count
        ELSE IF count.value > limits[type.most] THEN Refused(offset)
        ELSE Chain(count.value, readers, count.offset)

GetField(type, b, offset) ==
    CASE type.as = "string" -> GetString(type, b, offset)
      [] type.as = "list" -> GetList(type, b, offset)
      [] OTHER -> GetPlain(type, b, offset)

GetDoc(name, b, offset) ==
    LET readers == [i \in DOMAIN Get[name] |->
                       [p \in 0 .. Len(b) |-> GetField(Get[name][i][2], b, p)]]
    IN  Checked(name, Chain(Len(Get[name]), readers, offset))

\* A request for the status, or to stop: it has no body, and nobody looks for one.
HeaderOnly == <<"header">>

\* Mutant of decode: a body that is missing altogether is not missed.
DecodeBodiless(parts, b) ==
    LET readers == [i \in DOMAIN parts |->
                       [p \in 0 .. Len(b) |->
                          IF p = Len(b) THEN Done(p, 0) ELSE GetDoc(parts[i], b, p)]]
        all == Chain(Len(parts), readers, 0)
    IN  IF all.ok /\ (parts # HeaderOnly => all.offset = Len(b))
        THEN all ELSE Refused(all.offset)

\* Every part, and nothing after the last one: each reader ends with reader.at_end(),
\* but for the two requests that end with the header.
decode(parts, b) ==
    LET readers == [i \in DOMAIN parts |-> [p \in 0 .. Len(b) |-> GetDoc(parts[i], b, p)]]
        all == Chain(Len(parts), readers, 0)
    IN  IF all.ok /\ (parts # HeaderOnly => all.offset = Len(b))
        THEN all ELSE Refused(all.offset)

-----------------------------------------------------------------------------
(* What the variables of the program can hold. *)

FitsPlain(type, v) ==
    CASE type.as = "number" -> v \in 0 .. Top(type.width)
      [] type.as = "signed" -> v \in -Half .. Half - 1
      [] type.as = "bool" -> v \in BOOLEAN

\* A value for each field, and nothing else.
HasFields(name, v) == v = [x \in {Put[name][i][1] : i \in DOMAIN Put[name]} |-> v[x]]

FitsRow(name, v) ==
    /\ HasFields(name, v)
    /\ \A i \in DOMAIN Put[name] : FitsPlain(Put[name][i][2], v[Put[name][i][1]])

FitsField(type, v) ==
    CASE type.as = "string" -> v \in Seq(0 .. Base - 1)
      [] type.as = "list" ->
           /\ Len(v) \in 0 .. Top(4) /\ DOMAIN v = 1 .. Len(v)
           /\ v = [i \in 1 .. Len(v) |-> v[i]]
           /\ \A i \in DOMAIN v : FitsRow(type.of, v[i])
      [] OTHER -> FitsPlain(type, v)

FitsDoc(name, v) ==
    /\ HasFields(name, v)
    /\ \A i \in DOMAIN Put[name] : FitsField(Put[name][i][2], v[Put[name][i][1]])

ASSUME DocumentsAssumption ==
    \A d \in Documents :
        /\ d.kind \in Kinds
        /\ DOMAIN d.parts = DOMAIN d.kind
        /\ d.parts = [i \in DOMAIN d.kind |-> d.parts[i]]
        /\ \A i \in DOMAIN d.kind : FitsDoc(d.kind[i], d.parts[i])

-----------------------------------------------------------------------------
(* A document's way. *)

Init ==
    /\ \E d \in Documents : kind = d.kind /\ doc = d.parts
    /\ bytes = <<>>
    /\ at = "made"
    /\ damage = "none"
    /\ value = Refused(0)

Write ==
    /\ at = "made"
    /\ bytes' = encode(kind, doc)
    /\ at' = IF Overflows(Written(kind, doc)) THEN "unwritable" ELSE "written"
    /\ UNCHANGED <<kind, doc, damage, value>>

Cut ==
    /\ at = "written" /\ damage = "none"
    /\ \E n \in 0 .. Len(bytes) - 1 : bytes' = SubSeq(bytes, 1, n)
    /\ damage' = "cut"
    /\ UNCHANGED <<kind, doc, at, value>>

\* One byte more, or one that is different.
Alter ==
    /\ at = "written" /\ damage = "none"
    /\ \/ bytes' = Append(bytes, 0)
       \/ \E i \in DOMAIN bytes :
            \E b \in (0 .. Base - 1) \ {bytes[i]} : bytes' = [bytes EXCEPT ![i] = b]
    /\ damage' = "altered"
    /\ UNCHANGED <<kind, doc, at, value>>

Read ==
    /\ at = "written"
    /\ value' = decode(kind, bytes)
    /\ at' = "read"
    /\ UNCHANGED <<kind, doc, bytes, damage>>

Next == Write \/ Cut \/ Alter \/ Read

Spec == Init /\ [][Next]_vars

-----------------------------------------------------------------------------
(* Sizes. *)

\* Mutant of RealLimits: sets twice as large.
RealLimitsLargeSets ==
    [max_candidates_per_set |-> 8192, max_alternate_sets |-> 64, max_fences |-> 4096,
     max_lineage |-> 4096, max_attempts |-> 1024, max_assessments_reported |-> 4096,
     max_indeterminate_reported |-> 256, max_explanation_steps |-> 64,
     max_reason_bytes |-> 128, max_name_bytes |-> 96, max_record_payload |-> 2 ^ 20,
     max_frame_payload |-> 2 ^ 20, max_snapshot_bytes |-> 2 ^ 26,
     max_snapshot_records |-> 100000]

\* src/include/pff/limits.hpp, and the framing of records in store.hpp.
RealLimits ==
    [max_candidates_per_set |-> 4096, max_alternate_sets |-> 64, max_fences |-> 4096,
     max_lineage |-> 4096, max_attempts |-> 1024, max_assessments_reported |-> 4096,
     max_indeterminate_reported |-> 256, max_explanation_steps |-> 64,
     max_reason_bytes |-> 128, max_name_bytes |-> 96, max_record_payload |-> 2 ^ 20,
     max_frame_payload |-> 2 ^ 20, max_snapshot_bytes |-> 2 ^ 26,
     max_snapshot_records |-> 100000]

Total(ns) ==
    LET t[i \in 0 .. Len(ns)] == IF i = 0 THEN 0 ELSE t[i - 1] + ns[i]
    IN  t[Len(ns)]

\* The most bytes that a document may have.
RowSize(name) == Total([i \in DOMAIN Get[name] |-> Get[name][i][2].width])

MaxSize(type, bound) ==
    CASE type.as = "string" -> 2 + bound[type.most]
      [] type.as = "list" -> 4 + bound[type.most] * RowSize(type.of)
      [] OTHER -> type.width

DocSize(name, bound) ==
    Total([i \in DOMAIN Get[name] |-> MaxSize(Get[name][i][2], bound)])

KindSize(parts, bound) == Total([i \in DOMAIN parts |-> DocSize(parts[i], bound)])

\* Whatever the limits in force admit can be written, see EverythingFits.
ASSUME RoomAssumption ==
    \A k \in Kinds : KindSize(k, limits) <= limits.max_record_payload

\* encode_journal_record: 24 bytes of header and 4 of trailer.
RecordSize(name) == 28 + DocSize(name, RealLimits)

\* encode_snapshot: how many records of each payload.
SnapshotRecords ==
    [counters |-> 1, epoch |-> 1, policy |-> 1, obligations |-> 1,
     set |-> RealLimits.max_alternate_sets, fence |-> RealLimits.max_fences,
     attempt |-> RealLimits.max_attempts, lineage |-> RealLimits.max_lineage]

SnapshotSize ==
    FoldFunction(+, 0, [name \in DOMAIN SnapshotRecords |->
                          SnapshotRecords[name] * RecordSize(name)])

KindSizes == [k \in Kinds |-> KindSize(k, RealLimits)]

-----------------------------------------------------------------------------
(* Properties. *)

\* What a reader lets pass.
LegalPlain(type, v) == type.as = "number" => v \in 0 .. type.most

LegalRow(name, v) ==
    /\ \A i \in DOMAIN Get[name] : LegalPlain(Get[name][i][2], v[Get[name][i][1]])
    /\ Valid(name, v)

LegalField(type, v) ==
    CASE type.as = "string" -> Len(v) <= limits[type.most]
      [] type.as = "list" ->
           Len(v) <= limits[type.most] /\ \A i \in DOMAIN v : LegalRow(type.of, v[i])
      [] OTHER -> LegalPlain(type, v)

LegalDoc(name, v) ==
    /\ \A i \in DOMAIN Get[name] : LegalField(Get[name][i][2], v[Get[name][i][1]])
    /\ Valid(name, v)

LegalDocument == \A i \in DOMAIN kind : LegalDoc(kind[i], doc[i])

\* A document that the program may hold can be written, and is read back as it
\* was: what is journalled can be recovered, what is sent is understood.
WrittenIsRead ==
    LegalDocument =>
        /\ at # "unwritable"
        /\ at = "read" /\ damage = "none" => value.ok /\ value.value = doc

\* What a reader takes for a value are the bytes that the value would be written
\* as, and it is all that there is, but after a header without a body: no two
\* documents are read as one, and none but those two requests has a second spelling.
AcceptedIsCanonical ==
    at = "read" /\ value.ok =>
        /\ encode(kind, value.value) = SubSeq(bytes, 1, value.offset)
        /\ kind # HeaderOnly => value.offset = Len(bytes)

\* "Every decoder built on these primitives is required to reject trailing bytes"
\* (src/include/pff/canonical.hpp): no reader accepts more than it has read.
TrailingBytesRefused == at = "read" /\ value.ok => value.offset = Len(bytes)

\* No document is read from a part of another one.
CutIsRefused == at = "read" /\ damage = "cut" => ~value.ok

\* The largest documents that the limits of src/include/pff/limits.hpp admit fit
\* the writers, the frames and the records that carry them, and a state with
\* every table full fits a snapshot: no bound makes another one unreachable.
EverythingFits ==
    /\ KindSizes[kind] <= Least(RealLimits.max_record_payload, RealLimits.max_frame_payload)
    /\ FoldFunction(+, 0, SnapshotRecords) <= RealLimits.max_snapshot_records
    /\ SnapshotSize <= RealLimits.max_snapshot_bytes
==============================================================================
