------------------------------ MODULE HttpMultipart ------------------------------
(***************************************************************************)
(* MultipartFormDataParser of include/server/httplib.h, fed with the       *)
(* pieces of content that read_content_with_length happens to get.  A      *)
(* character is a string; the boundary is "b"; "H" stands for a header     *)
(* line that parses, anything else in its place for one that does not.     *)
(***************************************************************************)
EXTENDS HttpStream

CONSTANT CPPHTTPLIB_HEADER_MAX_LENGTH

VARIABLES
  form,        \* the form the client sends
  buf,         \* buf_ between buf_spos_ and buf_epos_
  state_,
  parsing,     \* in the loop of parse(), "parse", or returned: "true", "false"
  is_valid_,
  files,       \* the contents of the files begun
  cut          \* history: a piece ended where the parser loses track

parserVars == <<buf, state_, parsing, is_valid_, files>>
vars == <<streamVars, parserVars, form, cut>>

dash_ == <<"-", "-">>
crlf_ == <<"r", "n">>
dash_boundary_crlf_ == dash_ \o <<"b">> \o crlf_
crlf_dash_boundary_ == crlf_ \o dash_ \o <<"b">>

(***************************************************************************)
(* A form: what comes before the first boundary and behind the last, the   *)
(* contents of its files, and whether its last boundary closes it.         *)
(***************************************************************************)
Content(f) ==
  f.preamble \o dash_ \o <<"b">>
  \o FlattenSeq([i \in DOMAIN f.files |->
       crlf_ \o <<"H">> \o crlf_ \o crlf_ \o f.files[i] \o crlf_dash_boundary_])
  \o (IF f.closed THEN dash_ ELSE <<>>) \o f.epilogue

MultipartInit(forms) ==
  /\ form \in forms
  /\ StreamInit(<<"L", "i", "n">> \o Content(form) \o <<"L">>, Len(Content(form)))
  /\ buf = <<>> /\ state_ = "initial boundary" /\ parsing = "true"
  /\ is_valid_ = FALSE /\ files = <<>> /\ cut = FALSE

-----------------------------------------------------------------------------
\* Where s begins in buf (0 is the first place), or the size of buf
buf_find(s) ==
  LET found == {i \in 0 .. Len(buf) - Len(s) : SubSeq(buf, i + 1, i + Len(s)) = s}
  IN IF found = {} THEN Len(buf) ELSE Min(found)

buf_start_with(b, s) == IsPrefix(s, b)
buf_erase(n) == buf' = From(buf, n)
buf_append(piece) == buf' = buf \o piece
Return(v) == parsing' = v
GoOn == UNCHANGED parsing

Parse(at) == parsing = "parse" /\ buf # <<>> /\ state_ = at

\* parse(): the piece is appended, and the loop begins. What is before the first boundary
\* is erased, a beginning of the boundary too; an epilogue is erased as far as it has come.
Feed ==
  /\ parsing = "true"
  /\ read_content_with_length
  /\ buf_append(given') /\ Return("parse")
  /\ LET first == Len(form.preamble) + Len(dash_boundary_crlf_)
         last  == Len(Content(form)) - Len(form.epilogue)
     IN cut' = (cut \/ (state_ = "initial boundary" /\ r' \in Len(form.preamble) + 1 .. first - 1)
                    \/ r' \in last .. Len(Content(form)) - 1)
  /\ UNCHANGED <<state_, is_valid_, files, form>>

Loop ==
  /\ parsing = "parse" /\ state_ # "header" /\ buf = <<>>
  /\ Return("true") /\ UNCHANGED <<buf, state_, is_valid_, files>>

InitialBoundary ==
  /\ Parse("initial boundary")
  /\ LET rest == From(buf, buf_find(dash_boundary_crlf_)) IN
     IF Len(dash_boundary_crlf_) > Len(rest)
     THEN buf' = rest /\ Return("true") /\ UNCHANGED state_
     ELSE IF buf_start_with(rest, dash_boundary_crlf_)
     THEN buf' = From(rest, Len(dash_boundary_crlf_)) /\ state_' = "new entry" /\ GoOn
     ELSE buf' = rest /\ Return("false") /\ UNCHANGED state_
  /\ UNCHANGED <<is_valid_, files>>

NewEntry == Parse("new entry") /\ state_' = "headers" /\ GoOn /\ UNCHANGED <<buf, is_valid_, files>>

Headers ==
  /\ Parse("headers")
  /\ IF buf_find(crlf_) > CPPHTTPLIB_HEADER_MAX_LENGTH
     THEN Return("false") /\ UNCHANGED state_ ELSE state_' = "header" /\ GoOn
  /\ UNCHANGED <<buf, is_valid_, files>>

\* One line of the headers; the empty one ends them and begins a file.
Header ==
  /\ parsing = "parse" /\ state_ = "header"
  /\ LET pos == buf_find(crlf_) IN
     CASE pos = Len(buf) -> Return("true") /\ state_' = "headers" /\ UNCHANGED <<buf, is_valid_, files>>
       [] pos = 0 /\ Len(buf) > 0 ->
                     /\ files' = Append(files, <<>>) /\ buf_erase(Len(crlf_))
                     /\ state_' = "body" /\ GoOn /\ UNCHANGED is_valid_
       [] pos > 0 /\ pos < Len(buf) /\ First(buf, pos) # <<"H">> ->
            Return("false") /\ is_valid_' = FALSE /\ UNCHANGED <<buf, state_, files>>
       [] OTHER -> buf_erase(pos + Len(crlf_)) /\ GoOn /\ UNCHANGED <<state_, is_valid_, files>>

AddContent(n) == files' = [files EXCEPT ![Len(files)] = @ \o First(buf, n)]

\* Content up to the next boundary; if there is none, all but what may be its beginning
KeepNothing ==   \* mutant: all of it
  /\ Parse("body")
  /\ LET pos == buf_find(crlf_dash_boundary_) IN
     /\ AddContent(pos)
     /\ IF pos < Len(buf) THEN buf_erase(pos + Len(crlf_dash_boundary_)) /\ state_' = "boundary" /\ GoOn
        ELSE buf_erase(pos) /\ Return("true") /\ UNCHANGED state_
  /\ UNCHANGED is_valid_

Body ==
  /\ Parse("body")
  /\ LET pos == buf_find(crlf_dash_boundary_)
         len == Len(buf) - Len(crlf_dash_boundary_)
     IN CASE len < 0 -> Return("true") /\ UNCHANGED <<buf, state_, files>>
          [] pos < Len(buf) -> /\ AddContent(pos) /\ buf_erase(pos + Len(crlf_dash_boundary_))
                               /\ state_' = "boundary" /\ GoOn
          [] OTHER -> AddContent(len) /\ buf_erase(len) /\ Return("true") /\ UNCHANGED state_
  /\ UNCHANGED is_valid_

Boundary ==
  /\ Parse("boundary")
  /\ CASE Len(crlf_) > Len(buf) -> Return("true") /\ UNCHANGED <<buf, state_, is_valid_>>
       [] buf_start_with(buf, crlf_) ->
            buf_erase(Len(crlf_)) /\ state_' = "new entry" /\ GoOn /\ UNCHANGED is_valid_
       [] buf_start_with(buf, dash_) ->
            buf' = <<>> /\ is_valid_' = TRUE /\ GoOn /\ UNCHANGED state_
       [] OTHER -> Return("true") /\ UNCHANGED <<buf, state_, is_valid_>>
  /\ UNCHANGED files

parse ==
  /\ Loop \/ InitialBoundary \/ NewEntry \/ Headers \/ Header \/ Body \/ Boundary
  /\ UNCHANGED <<streamVars, form, cut>>

MultipartNext ==
  \/ (Arrive \/ getline) /\ UNCHANGED <<parserVars, form, cut>>
  \/ Feed
  \/ parse

\* read_content_core: what the handler is told
Accepted == is_valid_ /\ parsing = "true"

\* When all content is read, a form that was closed is accepted with the files that were
\* sent, and one that was not is not, whatever pieces the content came in; unless a piece
\* ended within the first boundary or within what follows the last.
FormAsSent ==
  r = length /\ parsing # "parse" /\ ~cut =>
    IF form.closed THEN Accepted /\ files = form.files ELSE ~Accepted

=============================================================================
