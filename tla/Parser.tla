------------------------------- MODULE Parser -------------------------------
(***************************************************************************)
(* Parser::run (crontab.rs): a crontab is read through get_char and        *)
(* unget_char, and parsing goes on behind an error as cronie's does.       *)
(*                                                                         *)
(* A character is one byte; "n" is a letter.  Of the time fields `*` is    *)
(* good and a letter a bad word; FieldParser has the ranges.               *)
(***************************************************************************)
EXTENDS Integers, Sequences, SequencesExt, FiniteSets

CONSTANTS
    Files, Options,         \* what is parsed: character sequences, and [system, privileged]
    Shortcuts,              \* the names that are known behind an @
    MAX_GARBAGE, MAX_COMMAND, MAX_ENVSTR, MAX_USER_ENVS, MAX_USER_ENTRIES

VARIABLES
    data, options,
    pc,                     \* where Parser::run is
    r,                      \* Reader, and the character it gave last
    garbage,                \* n of skip_comments
    filepos, fileline,      \* where the line began
    original,               \* history: its text as it was read
    env,                    \* load_env, with envstr: the line over earlier ones, as buf
    env_lines, entry_lines, entries,    \* how many
    diagnostics, load_user_stop, check_syntax_counts

lists == <<env_lines, entry_lines, entries>>
stops == <<diagnostics, load_user_stop, check_syntax_counts>>
vars  == <<data, options, pc, r, garbage, filepos, fileline, original, env, lists, stops>>

NL    == "newline"
NUL   == "nul"
Blank == " "
Quote == "quote"
Chars == {NL, NUL, Blank, Quote, "#", "=", "-", "*", "@", "n"}
EOF   == "end"
None  == << >>         \* before load_user_stop, <<line>>, and check_syntax_counts, <<variables, jobs>>

ASSUME ParserAssumption ==
    /\ {MAX_GARBAGE, MAX_COMMAND, MAX_ENVSTR, MAX_USER_ENVS, MAX_USER_ENTRIES} \subseteq Nat \ {0}
    /\ Files \subseteq Seq(Chars) /\ Shortcuts \subseteq Seq(Chars)

-----------------------------------------------------------------------------
(* Reader.                                                                 *)

Newline(c) == IF c = NL THEN 1 ELSE 0

get_char(rd) ==
    LET pushed == rd.back # << >>
        more   == rd.pos < Len(data)
        c      == IF pushed THEN Last(rd.back) ELSE IF more THEN data[rd.pos + 1] ELSE EOF
    IN  [ch   |-> c,
         pos  |-> IF ~pushed /\ more THEN rd.pos + 1 ELSE rd.pos,
         back |-> IF pushed THEN Front(rd.back) ELSE rd.back,
         eof  |-> rd.eof \/ c = EOF,
         line |-> rd.line + Newline(c)]

\* Slip, and part of unget_char: the line counter stays.
unget_keeping_line(rd) ==
    LET here == rd.back = << >> /\ rd.pos > 0 /\ data[rd.pos] = rd.ch
    IN  IF rd.ch = EOF THEN rd
        ELSE [rd EXCEPT !.eof = FALSE,
                        !.pos  = IF here THEN @ - 1 ELSE @,
                        !.back = IF here THEN @ ELSE Append(@, rd.ch)]

\* The character read last goes back.
unget_char(rd) ==
    LET u == unget_keeping_line(rd)
    IN  [u EXCEPT !.line = @ - Newline(rd.ch)]

tell(rd) == IF rd.pos < Len(rd.back) THEN 0 ELSE rd.pos - Len(rd.back)

seek(rd, p) == [rd EXCEPT !.pos = p, !.back = << >>, !.eof = FALSE]

\* What comes, the characters pushed back first.
Ahead(rd) == Reverse(rd.back) \o SubSeq(data, rd.pos + 1, Len(data))

\* The character after k times get_char, and the reader then.
Char(rd, k) == IF k = 0 THEN rd.ch ELSE IF k <= Len(Ahead(rd)) THEN Ahead(rd)[k] ELSE EOF

Reads(rd, k) ==
    LET fresh == k - Len(rd.back)
    IN  [ch   |-> Char(rd, k),
         pos  |-> IF fresh <= 0 THEN rd.pos ELSE IF k > Len(Ahead(rd)) THEN Len(data) ELSE rd.pos + fresh,
         back |-> SubSeq(rd.back, 1, -fresh),
         eof  |-> rd.eof \/ k > Len(Ahead(rd)),
         line |-> rd.line + Cardinality({i \in 1 .. k : Char(rd, i) = NL})]

\* On while the character read last is one of S, or until limit + 1 are counted.
ReadWhile(S, rd, n, limit) ==
    LET Stops(k) == Char(rd, k) \notin S \/ n + k > limit
        last     == CHOOSE k \in 0 .. Len(Ahead(rd)) + 1 : Stops(k) /\ \A j \in 0 .. k - 1 : ~Stops(j)
    IN  [r |-> Reads(rd, last), n |-> n + last]

Unlimited == Len(data) + 1

skip_blanks(rd) == ReadWhile({Blank}, rd, 0, Unlimited).r

\* The text before one of terms or a NUL.
get_string(rd, terms) ==
    LET read == ReadWhile(Chars \ (terms \cup {NUL}), get_char(rd), 0, Unlimited)
    IN  [r |-> read.r, s |-> SubSeq(Ahead(rd), 1, read.n)]

-----------------------------------------------------------------------------
(* load_env.                                                               *)

At(buf, i) == IF i <= Len(buf) THEN buf[i] ELSE NUL

Put(buf, i, c) == IF i <= Len(buf) THEN [buf EXCEPT ![i] = c] ELSE buf

following ==
    [NameI |-> "Name", Name |-> "Eq1", Eq1 |-> "Eq2", Eq2 |-> "ValueI",
     ValueI |-> "Value", Value |-> "Fini", Fini |-> "Error"]

\* Slip, and part of Equals: the quote of the name is still open in the value.
EqualsKeepsQuote(e) ==
    [e EXCEPT !.state = "Eq2", !.buf = Put(@, e.str, "="), !.str = @ + 1, !.val = e.str + 1,
              !.c = @ + 1]

Equals(e) == [EqualsKeepsQuote(e) EXCEPT !.quote = NUL]

\* Into a name or value, behind its quote.
Opened(e) ==
    LET quoted == At(e.buf, e.c) = Quote
    IN  IF e.state \notin {"NameI", "ValueI"} THEN e
        ELSE [e EXCEPT !.state = following[@],
                       !.quote = IF quoted THEN Quote ELSE @,
                       !.c = IF quoted THEN @ + 1 ELSE @]

Copy(o) == [o EXCEPT !.buf = Put(@, o.str, At(@, o.c)), !.str = @ + 1, !.c = @ + 1]

\* The character c, in any other state.
Match(o) ==
    LET ch      == At(o.buf, o.c)
        over(s) == [o EXCEPT !.c = @ + 1, !.state = s]
        goto(s) == [o EXCEPT !.state = s]
    IN  CASE o.state \in {"Name", "Value"} /\ o.quote # NUL /\ ch = o.quote -> over(following[o.state])
          [] o.state = "Name" /\ o.quote # NUL /\ ch = "=" -> goto("Error")
          [] o.state = "Name" /\ o.quote = NUL /\ ch = Blank -> over("Eq1")
          [] o.state = "Name" /\ o.quote = NUL /\ ch = "=" -> goto("Eq1")
          [] o.state = "Eq1" -> IF ch = "=" THEN Equals(o)
                                ELSE over(IF ch = Blank THEN "Eq1" ELSE "Error")
          [] o.state \in {"Eq2", "Fini"} -> IF ch = Blank THEN over(o.state) ELSE goto(following[o.state])
          [] OTHER -> Copy(o)

\* A turn of the loop, until it is over.
EnvStep(e) == Match(Opened(e))

EnvOver(e) == e.state = "Error" \/ At(e.buf, e.c) = NUL

IsAssignment(e) == e.state \in {"Fini", "Eq2"} \/ (e.state = "Value" /\ e.quote = NUL)

\* An assignment's buffer becomes NAME=value, without the blanks behind a plain value.
Trimmed(e) ==
    LET IsEnd(k) == \A i \in k .. e.str - 1 : At(e.buf, i) = Blank
        end      == IF e.state = "Value" THEN CHOOSE k \in e.val .. e.str :
                                                IsEnd(k) /\ \A j \in e.val .. k - 1 : ~IsEnd(j)
                    ELSE e.str
    IN  [i \in DOMAIN e.buf |-> IF i \in end .. e.str THEN NUL ELSE e.buf[i]]

-----------------------------------------------------------------------------
(* load_entry.                                                             *)

Good(rd) == [ok |-> TRUE, r |-> rd]
Bad(rd)  == [ok |-> FALSE, r |-> rd]

\* A field and the blanks behind it, from the character read last.  What follows a star too
\* closely is lost, and what ends a bad word goes back twice.
get_list(rd) ==
    LET behind == get_char(rd)
        word   == ReadWhile({"n"}, rd, 0, Unlimited).r
        failed == CASE rd.ch = "*" -> behind
                    [] rd.ch = "n" -> unget_char(unget_char(word))
                    [] OTHER       -> unget_char(rd)
    IN  IF rd.ch = "*" /\ behind.ch \in {Blank, NL} THEN Good(skip_blanks(behind))
        ELSE Bad([failed EXCEPT !.ch = EOF])

Then(fields) == IF fields.ok THEN get_list(fields.r) ELSE fields

\* A shortcut or five fields, from the character read last.
load_schedule(rd) ==
    LET name == get_string(rd, {Blank, NL})
    IN  IF rd.ch # "@" THEN Then(Then(Then(Then(get_list(rd)))))
        ELSE IF name.s \in Shortcuts THEN Good(skip_blanks(name.r)) ELSE Bad(name.r)

\* The command, from its first character.
CommandText(rd) == LET text == get_string(unget_char(rd), {NL}).r
                   IN  [ok |-> text.ch # EOF, r |-> text]

\* Options, of which only one can be right, and the command, from the character read last.
Command(rd) ==
    LET option == get_char(rd)
        behind == get_char(option)
        next   == skip_blanks(behind)
    IN  CASE rd.ch # "-" -> CommandText(rd)
          [] rd.ch = "-" /\ option.ch # "n" -> Bad(option)
          [] rd.ch = "-" /\ option.ch = "n" /\ behind.ch # Blank -> Bad(behind)
          [] rd.ch = "-" /\ option.ch = "n" /\ behind.ch = Blank ->
               IF next.ch \in {EOF, NL} THEN Bad(next)
               ELSE IF next.ch = "-" THEN Bad(get_char(next)) ELSE CommandText(next)

\* The user of a system crontab's job, if it is one, and the rest.
UserAndCommand(rd) ==
    LET name == get_string(rd, {Blank, NL}).r
        next == skip_blanks(name)
    IN  CASE ~options.system -> Command(get_char(rd))
          [] options.system /\ name.ch \in {EOF, NL} -> Bad(name)
          [] options.system /\ name.ch \notin {EOF, NL} /\ next.ch \in {EOF, NL} -> Bad(next)
          [] OTHER -> Command(get_char(unget_char(next)))

\* (The character after a dash is never the end of the file: the line has one.)
entry(rd) ==
    LET first    == IF rd.ch = "-" THEN get_char(rd) ELSE rd
        schedule == load_schedule(first)
    IN  IF rd.ch = "-" /\ ~options.privileged THEN Bad(rd)
        ELSE IF ~schedule.ok THEN schedule
        ELSE IF schedule.r.ch \in {EOF, NL, "*"} THEN Bad(schedule.r)
        ELSE UserAndCommand(unget_char(schedule.r))

\* Slip, and part of Discard: also the line after the bad one.
DiscardAlways(rd) == ReadWhile(Chars \ {NL}, get_char(rd), 1, MAX_COMMAND - 1).r

\* The rest of a bad line; nothing where its newline was read.
Discard(rd) == IF rd.ch = NL \/ rd.eof THEN rd ELSE DiscardAlways(rd)

-----------------------------------------------------------------------------
(* run.                                                                    *)

line_of(n) == IF n < 0 THEN 0 ELSE n

\* A diagnostic, with the history of where the job began (0 for garbage) and where reading stands.
Report(kind, line, from, rd) ==
    /\ diagnostics' = Append(diagnostics,
         [kind |-> kind, line |-> line_of(line), from |-> from,
          at |-> IF rd.eof THEN Len(data) + 1 ELSE tell(rd)])
    /\ check_syntax_counts' =            \* stop_check_syntax
         IF check_syntax_counts = None THEN <<env_lines, entries>> ELSE check_syntax_counts

stop_load_user(line, when) ==
    load_user_stop' = IF when /\ load_user_stop = None THEN <<line_of(line)>> ELSE load_user_stop

\* Slip: only both limits together count.
limit_of_a_list(c) == c[1] > MAX_USER_ENVS /\ c[2] > MAX_USER_ENTRIES

\* Too many of what check_syntax counts.
check_syntax_limit(c) == c[1] > MAX_USER_ENVS \/ c[2] > MAX_USER_ENTRIES

\* A line of blanks or a comment.
SkipLine ==
    LET first   == get_char(r)
        blanks  == ReadWhile({Blank}, first, garbage + 1, MAX_GARBAGE)
        comment == ReadWhile(Chars \ {NL}, blanks.r, blanks.n, MAX_GARBAGE)
    IN  /\ pc = "skip" /\ first.ch # EOF
        /\ blanks.n <= MAX_GARBAGE /\ blanks.r.ch \in {NL, "#"}
        /\ comment.n <= MAX_GARBAGE
        /\ r' = comment.r /\ garbage' = comment.n
        /\ UNCHANGED <<data, options, pc, filepos, fileline, original, env, lists, stops>>

\* Where the next line begins, or the end of the file.
EndOfComments ==
    LET first   == get_char(r)
        blanks  == ReadWhile({Blank}, first, garbage + 1, MAX_GARBAGE)
    IN  /\ pc = "skip"
        /\ \/ first.ch = EOF /\ r' = first
           \/ /\ first.ch # EOF /\ blanks.n <= MAX_GARBAGE
              /\ blanks.r.ch \notin {NL, "#"} /\ r' = unget_char(blanks.r)
        /\ pc' = "read"
        /\ UNCHANGED <<data, options, garbage, filepos, fileline, original, env, lists, stops>>

TooMuchGarbage ==
    LET first   == get_char(r)
        blanks  == ReadWhile({Blank}, first, garbage + 1, MAX_GARBAGE)
        comment == ReadWhile(Chars \ {NL}, blanks.r, blanks.n, MAX_GARBAGE)
    IN  /\ pc = "skip" /\ first.ch # EOF
        /\ \/ blanks.n > MAX_GARBAGE /\ r' = blanks.r
           \/ /\ blanks.n <= MAX_GARBAGE /\ blanks.r.ch \in {NL, "#"}
              /\ comment.n > MAX_GARBAGE /\ r' = comment.r
        /\ Report("garbage", r'.line - 1, 0, r')
        /\ stop_load_user(r'.line - 1, TRUE)
        /\ pc' = "read"
        /\ UNCHANGED <<data, options, garbage, filepos, fileline, original, env, lists>>

ReadEnvstr ==
    LET read == get_string(r, {NL})
        kept == SubSeq(read.s, 1, IF Len(read.s) < MAX_ENVSTR THEN Len(read.s) ELSE MAX_ENVSTR - 1)
    IN  /\ pc = "read"
        /\ filepos' = tell(r) /\ fileline' = r.line
        /\ r' = read.r
        /\ original' = kept
        /\ env' = [state |-> "NameI", c |-> 1, str |-> 1, val |-> 1, quote |-> NUL,
                   buf |-> kept \o <<NUL>> \o SubSeq(env.buf, Len(kept) + 2, MAX_ENVSTR)]
        /\ pc' = IF r'.ch = EOF THEN "done" ELSE "env"
        /\ IF r'.ch = EOF /\ kept # << >> THEN Report("eof", r'.line, tell(r), r') /\ UNCHANGED load_user_stop
           ELSE UNCHANGED stops
        /\ UNCHANGED <<data, options, garbage, lists>>

EnvTurn ==
    /\ pc = "env" /\ ~EnvOver(env)
    /\ env' = EnvStep(env)
    /\ UNCHANGED <<data, options, pc, r, garbage, filepos, fileline, original, lists, stops>>

LoadEnv ==
    /\ pc = "env" /\ EnvOver(env) /\ IsAssignment(env)
    /\ env' = [env EXCEPT !.buf = Trimmed(env)]
    /\ env_lines' = env_lines + 1
    /\ stop_load_user(fileline, env_lines' > MAX_USER_ENVS)
    /\ pc' = "skip" /\ garbage' = 0
    /\ UNCHANGED <<data, options, r, filepos, fileline, original, entry_lines, entries, diagnostics, check_syntax_counts>>

\* Where the line began, to read it again.
Rewound == [seek(r, filepos) EXCEPT !.line = fileline]

LoadEntry ==
    LET first  == get_char(Rewound)
        result == entry(first)
    IN  /\ pc = "env" /\ EnvOver(env) /\ ~IsAssignment(env)
        /\ entry_lines' = entry_lines + 1
        /\ stop_load_user(fileline, entry_lines' > MAX_USER_ENTRIES)
        /\ r' = IF result.ok THEN result.r ELSE Discard(result.r)
        /\ IF result.ok THEN entries' = entries + 1 /\ UNCHANGED <<diagnostics, check_syntax_counts>>
           ELSE entries' = entries /\ Report("error", r'.line - 1, filepos, r')
        /\ pc' = "skip" /\ garbage' = 0
        /\ UNCHANGED <<data, options, filepos, fileline, original, env, env_lines>>

-----------------------------------------------------------------------------

Init ==
    /\ data \in Files /\ options \in Options
    /\ pc = "skip" /\ garbage = 0
    /\ r = [ch |-> EOF, pos |-> 0, back |-> << >>, eof |-> FALSE, line |-> 1]
    /\ filepos = 0 /\ fileline = 1
    /\ original = << >>
    /\ env = [state |-> "NameI", c |-> 1, str |-> 1, val |-> 1, quote |-> NUL,
              buf |-> [i \in 1 .. MAX_ENVSTR |-> NUL]]
    /\ env_lines = 0 /\ entry_lines = 0 /\ entries = 0
    /\ diagnostics = << >> /\ load_user_stop = None /\ check_syntax_counts = None

Next == SkipLine \/ EndOfComments \/ TooMuchGarbage \/ ReadEnvstr \/ EnvTurn \/ LoadEnv \/ LoadEntry

Spec == Init /\ [][Next]_vars

-----------------------------------------------------------------------------
(* The lines of a file, and the documented grammar.                        *)

Blanks(l, i, j) == \A k \in i .. j : l[k] = Blank

\* Without the blanks before it, and without those behind it.
Strip(l) == SubSeq(l, CHOOSE k \in 1 .. Len(l) + 1 : Blanks(l, 1, k - 1) /\ (k <= Len(l) => l[k] # Blank),
                   Len(l))
Trim(l)  == SubSeq(l, 1, CHOOSE k \in 0 .. Len(l) : Blanks(l, k + 1, Len(l)) /\ (k > 0 => l[k] # Blank))

Has(l, c) == \E i \in DOMAIN l : l[i] = c

\* Up to the first c, if there is one.
UpTo(l, c) ==
    SubSeq(l, 1, CHOOSE k \in 0 .. Len(l) : (\A i \in 1 .. k : l[i] # c) /\ (k < Len(l) => l[k + 1] = c))

\* The line that the character after the first k is on.
LineAt(k) == 1 + Cardinality({i \in 1 .. k : data[i] = NL})

Starts == {k \in 0 .. Len(data) : k = 0 \/ data[k] \in {NL, NUL}}
LineFrom(k) ==
    LET l == SelectInSeq(SubSeq(data, k + 1, Len(data)), LAMBDA c : c \in {NL, NUL})
    IN  SubSeq(data, k + 1, k + l - 1)

\* What a quoted or plain text says.
Quoted(l) == IF Len(l) > 1 /\ l[1] = Quote /\ l[Len(l)] = Quote /\ ~Has(SubSeq(l, 2, Len(l) - 1), Quote)
             THEN {SubSeq(l, 2, Len(l) - 1)} ELSE {}
Plain(l)  == IF l = << >> \/ l[1] # Quote THEN {l} ELSE {}

NameSays(l)  == Quoted(l) \cup {x \in Plain(l) : ~Has(x, Blank)}
ValueSays(l) == Quoted(l) \cup Plain(l)

Assigned(names, values) == {n \o <<"=">> \o v : n \in names, v \in values}

\* parse_env_line's comment: no or one NAME=value.
Assignment(l) ==
    LET name  == UpTo(l, "=")
        value == Strip(SubSeq(l, Len(name) + 2, Len(l)))
    IN  IF ~Has(l, "=") THEN {} ELSE Assigned(NameSays(Trim(name)), ValueSays(Trim(value)))

\* The line ends in a quote that opens its name or value.
OpensAtEnd(l) ==
    /\ l # << >> /\ l[Len(l)] = Quote
    /\ \/ Len(l) = 1
       \/ Has(l, "=") /\ Blanks(l, Len(UpTo(l, "=")) + 2, Len(l) - 1)

\* Where the time of a job ends: a known shortcut, or five stars apart, before a blank.
TimeEnds(s) ==
    {k \in 1 .. Len(s) - 1 :
        /\ s[k + 1] = Blank
        /\ \/ s[1] = "@" /\ SubSeq(s, 2, k) \in Shortcuts
           \/ /\ s[1] = "*" /\ s[k] = "*"
              /\ \A i \in 1 .. k : s[i] \in {"*", Blank} /\ (s[i] = "*" => s[i + 1] = Blank)
              /\ Cardinality({i \in 1 .. k : s[i] = "*"}) = 5}

\* A job that the daemon can run.
Runs(l) ==
    LET s      == IF options.privileged /\ l[1] = "-" THEN Tail(l) ELSE l
        Job(k) == Strip(SubSeq(s, k + 1, Len(s)))
        Cmd(k) == IF options.system THEN Strip(SubSeq(Job(k), Len(UpTo(Job(k), Blank)) + 1, Len(Job(k))))
                  ELSE Job(k)
        Rest(cmd) == Strip(SubSeq(cmd, 3, Len(cmd)))
    IN  \E k \in TimeEnds(s) :
            /\ Job(k) # << >> /\ Job(k)[1] # "*" /\ Cmd(k) # << >>
            /\ Cmd(k)[1] = "-" => /\ Len(Cmd(k)) > 3 /\ Cmd(k)[2] = "n" /\ Cmd(k)[3] = Blank
                                 /\ Rest(Cmd(k)) # << >> /\ Rest(Cmd(k))[1] # "-"

\* INVARIANT  A line is an assignment, of the documented name and value (:933), whatever
\* the lines before left in the buffer; a quote that opens at the end of it is cronie's own.
EnvMeaning ==
    pc = "env" /\ EnvOver(env) /\ ~OpensAtEnd(original) =>
        /\ IsAssignment(env) <=> (Assignment(original) # {})
        /\ IsAssignment(env) => UpTo(Trimmed(env), NUL) \in Assignment(original)

\* INVARIANT  Line numbers (:302, :172): whatever was pushed back twice, a job or assignment
\* starts at its own line; too much garbage is reported at the line that its newline ended,
\* or the one before; an error at the job's, or the one before if the rest of its line stays.
LinesTrue ==
    /\ pc = "env" => fileline = LineAt(filepos)
    /\ \A d \in Range(diagnostics) :
         CASE d.kind = "garbage" ->
                d.line = LineAt(d.at - 1) - (IF d.at <= Len(data) /\ data[d.at] = NL THEN 0 ELSE 1)
           [] d.kind = "error" ->
                d.line = LineAt(d.from) - (IF d.at <= Len(data) /\ d.at > 0 /\ data[d.at] = NL THEN 0 ELSE 1)
           [] OTHER -> d.line = LineAt(Len(data))

\* INVARIANT  A bad line costs no other (:46 skips bad lines): every good job is loaded, if
\* lines are short of the limits and hold no NUL.
BadLinesCostNothingElse ==
    LET jobs == {k \in Starts : /\ Has(SubSeq(data, k + 1, Len(data)), NL)
                                /\ LET l == Strip(LineFrom(k))
                                   IN  l # << >> /\ l[1] # "#" /\ Assignment(l) = {} /\ Runs(l)}
        plain == \A k \in Starts : /\ Len(LineFrom(k)) < MAX_COMMAND /\ Len(LineFrom(k)) < MAX_ENVSTR
                                   /\ ~OpensAtEnd(Strip(LineFrom(k)))
    IN  /\ pc = "done" /\ ~Has(data, NUL) /\ plain
        /\ \A d \in Range(diagnostics) : d.kind # "garbage"
        => entries = Cardinality(jobs)

\* INVARIANT  What crontab(1) accepts (check_syntax, bin/crontab.rs:295) the daemon loads
\* (load_user_limit), with every job; and its limits refuse nothing else.
CheckedIsLoaded ==
    LET limit == check_syntax_limit(IF check_syntax_counts = None THEN <<env_lines, entries>>
                                    ELSE check_syntax_counts)
    IN  pc = "done" /\ diagnostics = << >> => /\ limit <=> (load_user_stop # None)
                                             /\ entries = entry_lines
=============================================================================
