------------------------------- MODULE HttpText -------------------------------
(***************************************************************************)
(* The conversions of include/server/httplib.h between what is on the wire *)
(* and what a handler sees: percent encoding, query strings, headers,      *)
(* paths, chunk sizes and UTF-8.  A string is a sequence of characters and *)
(* a character its code.                                                   *)
(***************************************************************************)
EXTENDS Integers, Sequences, SequencesExt

CONSTANT ULONG_MAX      \* of unsigned long

ASSUME UlongAssumption == ULONG_MAX \in Nat

c == [nul |-> 0, tab |-> 9, space |-> 32, quote |-> 34, percent |-> 37, amp |-> 38,
      plus |-> 43, minus |-> 45, dot |-> 46, slash |-> 47, colon |-> 58, semicolon |-> 59, eq |-> 61,
      backslash |-> 92, u |-> 117]

\* s[i], one past the end included
At(s, i) == IF i <= Len(s) THEN s[i] ELSE c.nul

\* Without the repetitions
IfNew(seen, x) == IF Contains(seen, x) THEN seen ELSE Append(seen, x)

Distinct(s) == FoldLeft(IfNew, <<>>, s)

\* The first position of x in s from i on, or one past the end
FindFrom(s, x, i) == Min({j \in i .. Len(s) : s[j] = x} \cup {Len(s) + 1})


-----------------------------------------------------------------------------
(***************************************************************************)
(* Hexadecimal digits, chunk sizes, UTF-8                                  *)
(***************************************************************************)

HexValue(d) ==
  CASE d \in 48 .. 57  -> d - 48
    [] d \in 65 .. 70  -> d - 55
    [] d \in 97 .. 102 -> d - 87
    [] OTHER -> -1

is_hex(d) == HexValue(d) >= 0

ValueOf(digits) == FoldLeft(LAMBDA v, d : v * 16 + HexValue(d), 0, digits)

\* The value of the n digits of s from i on; -1 if they are not n digits
from_hex_to_i(s, i, n) ==
  IF \A k \in i .. i + n - 1 : is_hex(At(s, k)) THEN ValueOf(SubSeq(s, i, i + n - 1)) ELSE -1

HexDigit(d, ten) == IF d < 10 THEN 48 + d ELSE ten - 10 + d

HexNoZero(n) ==   \* mutant: no digit for 0
  LET hex[k \in Nat] == IF k = 0 THEN <<>> ELSE Append(hex[k \div 16], HexDigit(k % 16, 97))
  IN hex[n]

from_i_to_hex(n) ==
  LET hex[k \in Nat] == Append(IF k < 16 THEN <<>> ELSE hex[k \div 16], HexDigit(k % 16, 97))
  IN hex[n]

\* What isspace() is true of
Blank == {c.space} \cup 9 .. 13

\* strtoul(s, &end, 16): blanks, a sign and 0x may come first, what follows the digits is not
\* looked at, and a number that does not fit is ULONG_MAX; -1 if there is no digit.
strtoul(s) ==
  LET start == Min({i \in 1 .. Len(s) + 1 : At(s, i) \notin Blank})
      sign  == At(s, start)
      zero  == IF sign \in {c.plus, c.minus} THEN start + 1 ELSE start
      first == IF At(s, zero) = 48 /\ At(s, zero + 1) \in {88, 120} /\ is_hex(At(s, zero + 2))
               THEN zero + 2 ELSE zero
      end   == Min({i \in first .. Len(s) + 1 : ~is_hex(At(s, i))})
      value == ValueOf(SubSeq(s, first, end - 1))
  IN IF end = first THEN -1 ELSE
     IF value > ULONG_MAX THEN ULONG_MAX ELSE
     IF sign = c.minus THEN (ULONG_MAX + 1 - value) % (ULONG_MAX + 1) ELSE value

\* The size of a chunk, from its line; -1 if the content is refused for it
chunk_len(line) == IF strtoul(line) = ULONG_MAX THEN -1 ELSE strtoul(line)

to_utf8(code) ==
  LET tail(shift) == 128 + ((code \div shift) % 64) IN
  IF code < 128 THEN <<code>> ELSE
  IF code < 2048 THEN <<192 + (code \div 64), tail(1)>> ELSE
  IF code \in 55296 .. 57343 THEN <<>> ELSE
  IF code < 65536 THEN <<224 + (code \div 4096), tail(64), tail(1)>> ELSE
  IF code < 1114112 THEN <<240 + (code \div 262144), tail(4096), tail(64), tail(1)>>
  ELSE <<>>

-----------------------------------------------------------------------------
(***************************************************************************)
(* Percent encoding                                                        *)
(***************************************************************************)

Percent(x) == <<c.percent, HexDigit(x \div 16, 65), HexDigit(x % 16, 65)>>

\* - _ . ! ~ * ' ( ) and the alphanumeric characters are left as they are.
Unreserved == {45, 95, 46, 33, 126, 42, 39, 40, 41} \cup 48 .. 57 \cup 65 .. 90 \cup 97 .. 122

encode_query_param(s) ==
  FlattenSeq([i \in 1 .. Len(s) |-> IF s[i] \in Unreserved THEN <<s[i]>> ELSE Percent(s[i])])

\* Up to the first NUL: blank + CR LF ' , ; and what is not ASCII; a percent sign is left alone.
encode_url(s) ==
  FlattenSeq([i \in 1 .. FindFrom(s, c.nul, 1) - 1 |->
    IF s[i] \in {32, 43, 13, 10, 39, 44, 59} \cup 128 .. 255 THEN Percent(s[i]) ELSE <<s[i]>>])

decode_url(s, plus_to_space) ==
  LET from[i \in 1 .. Len(s) + 1] ==
        IF i > Len(s) THEN <<>> ELSE
        LET unicode == from_hex_to_i(s, i + 2, 4)
            byte    == from_hex_to_i(s, i + 1, 2)
        IN CASE s[i] = c.percent /\ At(s, i + 1) = c.u /\ unicode >= 0 -> to_utf8(unicode) \o from[i + 6]
             [] s[i] = c.percent /\ At(s, i + 1) # c.u /\ byte >= 0 -> <<byte>> \o from[i + 3]
             [] s[i] = c.plus /\ plus_to_space -> <<c.space>> \o from[i + 1]
             [] OTHER -> <<s[i]>> \o from[i + 1]
  IN from[1]

-----------------------------------------------------------------------------
(***************************************************************************)
(* Splitting and trimming                                                  *)
(***************************************************************************)

trim(s) ==
  LET black == {i \in DOMAIN s : s[i] \notin {c.space, c.tab}}
  IN IF black = {} THEN <<>> ELSE SubSeq(s, Min(black), Max(black))

trim_double_quotes_copy(s) ==
  IF Len(s) >= 2 /\ s[1] = c.quote /\ Last(s) = c.quote THEN SubSeq(s, 2, Len(s) - 1) ELSE s

\* s cut at every d, each part trimmed, empty parts dropped
split(s, d) ==
  LET from[i \in 1 .. Len(s) + 2] ==
        LET cut  == FindFrom(s, d, i)
            part == trim(SubSeq(s, i, cut - 1))
        IN IF i > Len(s) THEN <<>>
           ELSE (IF part = <<>> THEN <<>> ELSE <<part>>) \o from[cut + 1]
  IN from[1]

\* key=value; of several = only what follows the last counts.
KeyValue(s) ==
  LET parts == split(s, c.eq)
  IN IF Len(parts) > 1 THEN <<parts[1], Last(parts)>> ELSE <<parts[1], <<>>>>

\* A part without a key is left out.
WithKey(kvs, s) == IF split(s, c.eq) = <<>> THEN kvs ELSE Append(kvs, KeyValue(s))

KeyValues(s, d) == FoldLeft(WithKey, <<>>, Distinct(split(s, d)))

parse_query_text(s) ==
  LET kvs == KeyValues(s, c.amp)
  IN [i \in 1 .. Len(kvs) |-> <<decode_url(kvs[i][1], TRUE), decode_url(kvs[i][2], TRUE)>>]

params_to_query_str(params) ==
  FlattenSeq([i \in 1 .. Len(params) |->
    (IF i = 1 THEN <<>> ELSE <<c.amp>>) \o params[i][1] \o <<c.eq>> \o encode_query_param(params[i][2])])

parse_disposition_params(s) ==
  LET kvs == KeyValues(s, c.semicolon)
  IN [i \in 1 .. Len(kvs) |->
       <<trim_double_quotes_copy(kvs[i][1]), trim_double_quotes_copy(kvs[i][2])>>]

\* Content-Type with a parameter: the one character boundary_is stands for "boundary=".
boundary_is == 256

parse_multipart_boundary(s) ==
  LET pos == FindFrom(s, boundary_is, 1)
  IN IF pos > Len(s) THEN <<>>
     ELSE trim_double_quotes_copy(SubSeq(s, pos + 1, FindFrom(s, c.semicolon, pos) - 1))

\* The one character location_is stands for the key Location.
location_is == 257

\* A header line without its end: <<key, value>>, or <<>> for a line that is skipped. The
\* value of Location is left as it came.
parse_header(s) ==
  LET black == {i \in DOMAIN s : s[i] \notin {c.space, c.tab}}
      line  == IF black = {} THEN <<>> ELSE SubSeq(s, 1, Max(black))
      p     == FindFrom(line, c.colon, 1)
      key   == SubSeq(line, 1, p - 1)
      val   == trim(SubSeq(line, p + 1, Len(line)))
  IN IF p \in {1, Len(line) + 1} \/ val = <<>> THEN <<>>
     ELSE <<key, IF key = <<location_is>> THEN val ELSE decode_url(val, FALSE)>>

-----------------------------------------------------------------------------
(***************************************************************************)
(* Paths                                                                   *)
(***************************************************************************)

\* The components read so far, the last one to its next character x; repeated slashes are skipped.
ReadPart(parts, x) ==
  IF x # c.slash THEN Append(Front(parts), Append(Last(parts), x))
  ELSE IF Last(parts) = <<>> THEN parts ELSE Append(parts, <<>>)

Components(path) == Front(FoldLeft(ReadPart, <<<<>>>>, Append(path, c.slash)))

Level(n, x) ==
  CASE x = <<c.dot>> -> n
    [] x = <<c.dot, c.dot>> -> n - 1
    [] OTHER -> n + 1

ValidAtEnd(path) ==   \* mutant: only the level reached is looked at
  /\ \A i \in DOMAIN path : path[i] \notin {c.nul, c.backslash}
  /\ FoldLeft(Level, 0, Components(path)) >= 0

is_valid_path(path) ==
  LET level(n, x) == IF n < 0 THEN n ELSE Level(n, x)
  IN /\ \A i \in DOMAIN path : path[i] \notin {c.nul, c.backslash}
     /\ FoldLeft(level, 0, Components(path)) >= 0

\* PathParamsMatcher: the pattern cut at its :name parameters
PathParamsMatcher(pattern) ==
  LET from[i \in 1 .. Len(pattern) + 2] ==
        LET marker == FindFrom(pattern, c.colon, i)
            sep    == FindFrom(pattern, c.slash, marker + 1)
            rest   == from[sep + 1]
        IN IF i > Len(pattern) THEN [fragments |-> <<>>, names |-> <<>>]
           ELSE IF marker > Len(pattern)
           THEN [fragments |-> <<SubSeq(pattern, i, Len(pattern))>>, names |-> <<>>]
           ELSE [fragments |-> <<SubSeq(pattern, i, marker - 1)>> \o rest.fragments,
                 names     |-> <<SubSeq(pattern, marker + 1, sep - 1)>> \o rest.names]
  IN from[1]

\* The values of the parameters, one after the other, or NoMatch: -1 is no character
NoMatch == <<<<-1>>>>

match(m, path) ==
  LET from[k \in 1 .. Len(m.fragments) + 1] == [pos \in 1 .. Len(path) + 2 |->
        IF k > Len(m.fragments)
        THEN IF pos > Len(path) THEN <<>> ELSE NoMatch
        ELSE LET next == pos + Len(m.fragments[k])
                 sep  == FindFrom(path, c.slash, next)
                 rest == from[k + 1][IF k > Len(m.names) THEN next ELSE sep + 1]
             IN IF next - 1 > Len(path) \/ SubSeq(path, pos, next - 1) # m.fragments[k] THEN NoMatch
                ELSE IF k > Len(m.names) \/ rest = NoMatch THEN rest
                ELSE <<SubSeq(path, next, sep - 1)>> \o rest]
  IN from[1][1]

=============================================================================
