------------------------------- MODULE HttpRanges -------------------------------
(***************************************************************************)
(* Range requests in include/server/httplib.h: the ranges of the header,   *)
(* their check against the length of the content, and the parts of the     *)
(* content that are sent.  A range is a pair <<first, last>>, -1 standing  *)
(* for a number that is left out.  Content is a sequence.                  *)
(***************************************************************************)
EXTENDS Integers, Sequences, SequencesExt

CONSTANT CPPHTTPLIB_RANGE_MAX_COUNT

\* Every range of a Range header must be in order, or the header is refused.
parse_range_header(ranges) ==
  \A i \in DOMAIN ranges : -1 \in {ranges[i][1], ranges[i][2]} \/ ranges[i][1] <= ranges[i][2]

\* range_error completes a range, ...
Complete(r, len) ==
  LET all  == IF r = <<-1, -1>> THEN <<0, len>> ELSE r
      tail == IF all[1] = -1 THEN <<len - all[2], len - 1>> ELSE all
  IN IF tail[2] = -1 THEN <<tail[1], len - 1>> ELSE tail

Completed(ranges, len) == [i \in DOMAIN ranges |-> Complete(ranges[i], len)]

InContent(r, len) == 0 <= r[1] /\ r[1] <= r[2] /\ r[2] <= len - 1

LastBefore(rs, i) == Max({-1} \cup {rs[j][2] : j \in 1 .. i - 1})

\* ... wants it in the content, after the range before it, and no more than two of them to
\* overlap with what came before.
range_error(ranges, len) ==
  LET rs == Completed(ranges, len) IN
  \/ Len(ranges) > CPPHTTPLIB_RANGE_MAX_COUNT
  \/ \E i \in DOMAIN rs : ~InContent(rs[i], len)
  \/ \E i, j \in DOMAIN rs : i < j /\ rs[j][1] <= rs[i][1]
  \/ Cardinality({i \in DOMAIN rs : rs[i][1] <= LastBefore(rs, i)}) > 2

LastExcluded(r) == [offset |-> r[1], length |-> r[2] - r[1]]   \* mutant
get_range_offset_and_length(r) == [offset |-> r[1], length |-> r[2] - r[1] + 1]

make_content_range_header_field(ol, len) == <<"bytes", ol.offset, ol.offset + ol.length - 1, len>>

Slice(content, ol) == SubSeq(content, ol.offset + 1, ol.offset + ol.length)

\* The tokens of a multipart/byteranges body, each of which counts as one whatever it says,
\* and the parts of the content between them
Token(t) == [part |-> FALSE, token |-> t, offset |-> 0, length |-> 0]
Tokens(s) == [i \in DOMAIN s |-> Token(s[i])]

Part(r, len, type) ==
  LET ol == get_range_offset_and_length(r) IN
  Tokens(<<"--", "boundary", "crlf">>)
  \o (IF type = "" THEN <<>> ELSE Tokens(<<"Content-Type", type, "crlf">>))
  \o <<Token("Content-Range"), Token(make_content_range_header_field(ol, len))>>
  \o Tokens(<<"crlf", "crlf">>)
  \o <<[part |-> TRUE, token |-> "", offset |-> ol.offset, length |-> ol.length], Token("crlf")>>

process_multipart_ranges_data(rs, len, type) ==
  FlattenSeq([i \in DOMAIN rs |-> Part(rs[i], len, type)]) \o Tokens(<<"--", "boundary", "--">>)

make_multipart_ranges_data(rs, content, type) ==
  FoldLeft(LAMBDA data, x : data \o IF x.part THEN Slice(content, x) ELSE <<x.token>>,
           <<>>, process_multipart_ranges_data(rs, Len(content), type))

get_multipart_ranges_data_length(rs, len, type) ==
  FoldLeft(LAMBDA n, x : n + IF x.part THEN x.length ELSE 1,
           0, process_multipart_ranges_data(rs, len, type))

\* apply_ranges and, for a provider, write_content_with_provider: Content-Length, and what
\* is sent. A body is cut before its length is taken, a provider is asked for its parts
\* after the length has been computed.
apply_ranges(rs, content, type, provided) ==
  LET len  == Len(content)
      one  == get_range_offset_and_length(rs[1])
      data == IF rs = <<>> THEN content ELSE IF Len(rs) = 1 THEN Slice(content, one)
              ELSE make_multipart_ranges_data(rs, content, type)
      computed == IF rs = <<>> THEN len ELSE IF Len(rs) = 1 THEN one.length
                  ELSE get_multipart_ranges_data_length(rs, len, type)
  IN [data |-> data, length |-> IF provided THEN computed ELSE Len(data)]

=============================================================================
