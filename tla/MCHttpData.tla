------------------------------- MODULE MCHttpData -------------------------------
(***************************************************************************)
(* Small instances of what include/server/httplib.h does to data: forms    *)
(* that arrive in pieces, and, each an initial state of its own without a  *)
(* next one, inputs of the conversions of HttpText and HttpRanges.         *)
(***************************************************************************)
EXTENDS HttpMultipart, HttpText, FiniteSets

CONSTANT CPPHTTPLIB_RANGE_MAX_COUNT

VARIABLE item

H == INSTANCE HttpRanges

-----------------------------------------------------------------------------
\* Contents that look like the beginning of a boundary, and forms around them
NoForm == [preamble |-> <<>>, files |-> <<>>, epilogue |-> <<>>, closed |-> FALSE]

Forms ==
  LET f(before, contents, after, end) ==
        [preamble |-> before, files |-> contents, epilogue |-> after, closed |-> end]
  IN { f(<<>>, <<<<"x", "r", "n", "-", "x">>>>, <<>>, TRUE),
       f(<<>>, <<<<"r">>, <<>>>>, <<>>, TRUE),
       f(<<>>, <<<<"r", "n">>, <<"-", "-">>>>, <<"r", "n">>, TRUE),
       f(<<"x", "r", "n">>, <<<<"r", "n", "-", "-">>>>, <<"r", "n", "y", "r", "n">>, TRUE),
       f(<<>>, <<<<"x", "x", "x", "x", "x", "x", "x">>>>, <<>>, FALSE) }

\* The sequences of at most n elements of S
Strings(S, n) == BoundedSeq(S, n)

Letters == {97, 49, c.percent, c.plus, c.space, c.amp, c.eq, c.nul, 233}

Bounds == {<<a, b>> : a, b \in -1 .. 3}

RangeItems ==
  [kind : {"ranges"}, len : 0 .. 4, provided : BOOLEAN, ranges : Strings(Bounds, 2)]
  \cup [kind : {"ranges"}, len : {4}, provided : {TRUE},
        ranges : Strings({<<0, 3>>, <<1, 3>>, <<2, 2>>, <<2, -1>>, <<-1, 1>>}, 5)]

\* Patterns with a parameter, for which the constructor does not throw: no name comes twice
Patterns ==
  {p \in {<<c.slash>> \o x : x \in Strings({97, 49, c.slash, c.colon}, 5)} :
     LET names == PathParamsMatcher(p).names
     IN /\ \E i \in 1 .. Len(p) - 1 : p[i] = c.slash /\ p[i + 1] = c.colon
        /\ IsInjective(names)}

Items ==
  RangeItems
  \cup [kind : {"text"}, text : Strings(Letters, 3)]
  \cup [kind : {"number"}, number : 0 .. 260 \cup
         {2047, 2048, 4095, 4096, 55295, 55296, 57343, 57344, 65535, 65536, 1114111, 1114112}]
  \cup [kind : {"path"}, path : Strings({97, c.dot, c.slash}, 7)]
  \cup [kind : {"route"}, pattern : Patterns,
         path : {<<c.slash>> \o p : p \in Strings({97, c.slash}, 4)}]

Init ==
  \/ MultipartInit(Forms) /\ item = [kind |-> "form"]
  \/ MultipartInit({NoForm}) /\ item \in Items

Next == item.kind = "form" /\ MultipartNext /\ UNCHANGED item

Spec == Init /\ [][Next]_<<vars, item>>

-----------------------------------------------------------------------------
\* What RFC 9110, which the comment at httplib.h:4748 names, says that a range of content of
\* length len selects, from the first to the last position
Selected(x, len) ==
  IF x[1] = -1 THEN len - x[2] .. len - 1 ELSE
  IF x[2] = -1 THEN x[1] .. len - 1 ELSE x[1] .. x[2]

\* Ranges that parse_range_header and range_error let through select what the header says,
\* each within the content; the length announced is the length sent, whether it is taken of
\* the body or computed for a provider; and nothing is sent more than three times.
RangesRight ==
  item.kind = "ranges" /\ item.ranges # <<>>
    /\ H!parse_range_header(item.ranges) /\ ~H!range_error(item.ranges, item.len) =>
      LET content == [i \in 1 .. item.len |-> i - 1]
          rs      == H!Completed(item.ranges, item.len)
          answer  == H!apply_ranges(rs, content, "t", item.provided)
          parts   == [i \in DOMAIN rs |-> H!Slice(content, H!get_range_offset_and_length(rs[i]))]
          times(p) == Cardinality({i \in DOMAIN rs : p \in Selected(item.ranges[i], item.len)})
      IN /\ \A i \in DOMAIN rs :
              /\ ToSet(parts[i]) = Selected(item.ranges[i], item.len)
              /\ parts[i] # <<>> /\ ToSet(parts[i]) \subseteq 0 .. item.len - 1
         /\ answer.length = Len(answer.data)
         /\ Len(rs) = 1 => answer.data = parts[1]
         /\ \A p \in 0 .. item.len - 1 : times(p) <= 3

\* What a UTF-8 decoder reads from bytes: the bits of the first byte behind its mark, then
\* six bits of each that follows
Utf8Value(bytes) ==
  LET mark == CASE Len(bytes) = 1 -> 0 [] Len(bytes) = 2 -> 192
                [] Len(bytes) = 3 -> 224 [] Len(bytes) = 4 -> 240
  IN FoldLeft(LAMBDA v, b : v * 64 + b - 128, bytes[1] - mark, Tail(bytes))

\* The name of a header whose value is decoded, and of the one whose value is not
HeaderNames == {97, location_is}

\* A text is read as it was sent by every parser that is given it: as a value in a query
\* whatever it is; as a path if it has no percent sign, which encode_url leaves alone, and no
\* NUL, at which it stops; as the value of a header if no blanks are around it and it has no
\* percent sign, with which only the value of Location is left alone.
TextArrives ==
  item.kind = "text" =>
    LET s == item.text
        sent_twice == <<<<<<97>>, s>>, <<<<49>>, s>>>>
        boundary == <<97, c.semicolon, boundary_is>> \o s \o <<c.semicolon, 97>>
        header(name) == <<name, c.colon, c.space>> \o s \o <<c.tab>>
    IN /\ decode_url(encode_query_param(s), TRUE) = s
       /\ parse_query_text(params_to_query_str(sent_twice)) = sent_twice
       /\ c.percent \notin ToSet(s) /\ c.nul \notin ToSet(s) =>
            decode_url(encode_url(s), FALSE) = s
       /\ trim(s) = s /\ s # <<>> =>
            \A name \in HeaderNames :
              c.percent \notin ToSet(s) \/ name = location_is =>
                parse_header(header(name)) = <<<<name>>, s>>
       /\ parse_multipart_boundary(boundary) = s
       /\ c.eq \notin ToSet(s) =>
            parse_disposition_params(<<97, c.eq, c.quote>> \o s \o
                                     <<c.quote, c.semicolon, 49, c.eq, 97>>)
              = <<<<<<97>>, s>>, <<<<49>>, <<97>>>>>>

\* The number of code points, and those of them that are halves of a surrogate pair
CodePoints == 1114112

Surrogates == 55296 .. 57343

\* So is a number, as the size of a chunk and as a character; a size that does not fit, or is
\* the last that does, is refused and not taken for another.
NumberArrives ==
  item.kind = "number" =>
    LET n == item.number
    IN /\ chunk_len(from_i_to_hex(n) \o <<13, 10>>) = IF n < ULONG_MAX THEN n ELSE -1
       /\ n \notin Surrogates /\ n < CodePoints =>
            /\ to_utf8(n) # <<>> /\ Utf8Value(to_utf8(n)) = n
            /\ \A i \in DOMAIN to_utf8(n) : i > 1 => to_utf8(n)[i] \in 128 .. 191

\* What a client encodes is what the server decodes: a value in a query string, alone or as
\* one of two parameters, a path without percent sign and NUL, a form's boundary and
\* disposition, a header line without percent sign, the size of a chunk below ULONG_MAX, and
\* a character in UTF-8, of which the halves of a surrogate pair are the only ones to be lost.
RoundTrips == TextArrives /\ NumberArrives

\* A path is_valid_path lets through never steps out of the directory a mount point maps to,
\* not even on its way to a place inside, and a path that does not step out is let through.
PathBelowMount ==
  item.kind = "path" =>
    LET parts == Components(item.path)
        ups(i)   == {j \in 1 .. i : parts[j] = <<c.dot, c.dot>>}
        downs(i) == {j \in 1 .. i : parts[j] \notin {<<c.dot>>, <<c.dot, c.dot>>}}
    IN is_valid_path(item.path)
         <=> \A i \in 0 .. Len(parts) : Cardinality(ups(i)) <= Cardinality(downs(i))

\* The pattern with values for its parameters
Filled(m, values) ==
  FlattenSeq([k \in DOMAIN m.fragments |->
    m.fragments[k] \o (IF k \in DOMAIN values THEN values[k] ELSE <<>>)
                   \o IF k < Len(m.fragments) THEN <<c.slash>> ELSE <<>>])

\* A path matches a pattern with parameters exactly if it is the pattern filled with values
\* that hold no slash, one more slash at its end allowed behind a parameter; the values
\* handed to the handler are those, none is lost or shifted.
ParamsMatch ==
  item.kind = "route" =>
    LET m      == PathParamsMatcher(item.pattern)
        values == match(m, item.path)
    IN /\ values # NoMatch =>
            /\ Len(values) = Len(m.names)
            /\ item.path \in {Filled(m, values), Filled(m, values) \o <<c.slash>>}
            /\ \A k \in DOMAIN values : c.slash \notin ToSet(values[k])
       /\ values = NoMatch =>
            \A vs \in [DOMAIN m.names -> Strings({97}, 2)] : Filled(m, vs) # item.path

\* What reaches a handler or the disk is what the path of the request says: PathBelowMount
\* for the files of a mount point, ParamsMatch for a handler with parameters.
PathsRight == PathBelowMount /\ ParamsMatch

=============================================================================
