-------------------------- MODULE DecodeFormatter ---------------------------
(* The layout of decoded lines (decode/decode_formatter.cc): ParsePattern     *)
(* turns a pattern into formatters, Format appends what each makes of a       *)
(* message.  A pattern is a sequence of characters; what is appended is a     *)
(* sequence of characters and of fields of the message, not spelled out.      *)
EXTENDS Sequences, Naturals

\* LogLevelFormatter to LogInfoFormatter, and the field that each appends.
Letter == [l |-> "level", D |-> "date", S |-> "seconds", M |-> "milliseconds",
           p |-> "pid", t |-> "tid", F |-> "file_name", f |-> "func_name", v |-> "log_info"]

Flags == DOMAIN Letter \cup {"#"}
FieldOf(flag) == IF flag = "#" THEN "line" ELSE Letter[flag]

\* An AggregateFormatter appends its own characters.
Aggregate(str) == [kind |-> "chars", str |-> str]
Field(name) == [kind |-> "field", name |-> name]

NoPercent(flag) == IF flag \in Flags THEN Field(FieldOf(flag)) ELSE Aggregate(<<flag>>)
GetFormatterByFlag(flag) == IF flag \in Flags THEN Field(FieldOf(flag)) ELSE Aggregate(<<"%", flag>>)

\* The characters collected so far become a formatter.
Pushed(st) == IF st.user_chars = <<>> THEN st.formatters
              ELSE Append(st.formatters, Aggregate(st.user_chars))

\* One turn of the loop; the character behind a '%' has none of its own.
Parse(st, ch) ==
    IF st.flag THEN [st EXCEPT !.flag = FALSE, !.formatters = Append(@, GetFormatterByFlag(ch))]
    ELSE IF ch = "%" THEN [flag |-> TRUE, user_chars |-> <<>>, formatters |-> Pushed(st)]
    ELSE [st EXCEPT !.user_chars = Append(@, ch)]

\* What the loop has at each place of the pattern.
Parsed(pattern) ==
    LET st[n \in 0..Len(pattern)] ==
            IF n = 0 THEN [flag |-> FALSE, user_chars |-> <<>>, formatters |-> <<>>]
            ELSE Parse(st[n - 1], pattern[n])
    IN st

ParsePattern(pattern) == Pushed(Parsed(pattern)[Len(pattern)])

\* The text of a field of a message, or of a character of the layout (message 0).
Piece(x, m) == [what |-> x, of |-> m]
Chars(str) == [i \in 1..Len(str) |-> Piece(str[i], 0)]

\* The part before log_info is cut to 1023 characters; names are shorter here.
CombineLogMsg(m) ==
    Chars(<<"[">>) \o <<Piece("level_number", m)>> \o Chars(<<"]", "[">>) \o <<Piece("milliseconds", m)>>
    \o Chars(<<"]", "[">>) \o <<Piece("pid", m)>> \o Chars(<<":">>) \o <<Piece("tid", m)>>
    \o Chars(<<"]", "[">>) \o <<Piece("file_name", m)>> \o Chars(<<":">>) \o <<Piece("func_name", m)>>
    \o Chars(<<":">>) \o <<Piece("line", m)>> \o Chars(<<"]">>) \o <<Piece("log_info", m)>>

FormatOne(f, m) == IF f.kind = "chars" THEN Chars(f.str) ELSE <<Piece(f.name, m)>>

\* The sequences in s up to a place, one behind the other.
Joined(s) == LET first[n \in 0..Len(s)] == IF n = 0 THEN <<>> ELSE first[n - 1] \o s[n] IN first

Text(formatters, m) ==
    Joined([i \in 1..Len(formatters) |-> FormatOne(formatters[i], m)])[Len(formatters)]

Format(formatters, m) == IF formatters = <<>> THEN CombineLogMsg(m) ELSE Text(formatters, m)

-----------------------------------------------------------------------------
(* What a pattern means, without the parser                                   *)

\* How many '%' stand directly before a place.
Run(p, i) == i - 1 - (CHOOSE k \in 0..i - 1 : (k = 0 \/ p[k] # "%") /\ \A j \in k + 1..i - 1 : p[j] = "%")

\* The places where a flag is announced: every other '%' of a run.
Announces(p, i) == p[i] = "%" /\ Run(p, i) % 2 = 0

Meant(p, i, m) ==
    IF i > 1 /\ Announces(p, i - 1)
    THEN IF p[i] \in Flags THEN <<Piece(FieldOf(p[i]), m)>> ELSE Chars(<<"%", p[i]>>)
    ELSE IF Announces(p, i) THEN <<>> ELSE Chars(<<p[i]>>)

\* The pieces of all places in their order; a pattern without any has the
\* layout of CombineLogMsg.
Meaning(p, m) ==
    LET all == Joined([i \in 1..Len(p) |-> Meant(p, i, m)])[Len(p)]
    IN IF all = <<>> THEN CombineLogMsg(m) ELSE all
=============================================================================
