------------------------------- MODULE HostNames -------------------------------
(***************************************************************************)
(* How the daemon reads host names (daemon.rs): from the command lines of  *)
(* ssh processes, and from reverse DNS.                                    *)
(*                                                                         *)
(* A string is a sequence of symbols: a punctuation character, or letters  *)
(* and digits, as many as nothing here tells apart.  The empty string      *)
(* stands for None as well: no function here returns Some("").             *)
(*                                                                         *)
(* pgrep puts blanks between the arguments of a process, and the code cuts *)
(* its line at every blank: an argument with blanks is read as several     *)
(* words, an empty one as none.  So no string here has a blank, and an     *)
(* option's value is the sequence of its words.                            *)
(***************************************************************************)
EXTENDS Naturals, SequencesExt

CONSTANT LowerCase   \* the words with capitals, and what they are in lower case

Lower(name) ==
    [i \in DOMAIN name |-> IF name[i] \in DOMAIN LowerCase THEN LowerCase[name[i]] ELSE name[i]]

\* Anything but letters, digits, "." and "-" is not part of a host name.
Quote == {"'", "\""}
Foreign == {"@", "[", "]", ":", "/", "_"} \cup Quote

ASSUME WordsAssumption ==
    \A w \in DOMAIN LowerCase : w \notin Foreign /\ LowerCase[w] \in STRING \ Foreign

AfterLast(s, symbol) == SubSeq(s, SelectLastInSeq(s, LAMBDA x : x = symbol) + 1, Len(s))

BeforeFirst(s, symbol) ==
    LET i == SelectInSeq(s, LAMBDA x : x = symbol)
    IN IF i = 0 THEN s ELSE SubSeq(s, 1, i - 1)

Unquoted(s) ==
    LET Plain(x) == x \notin Quote
    IN IF SelectInSeq(s, Plain) = 0 THEN <<>>
       ELSE SubSeq(s, SelectInSeq(s, Plain), SelectLastInSeq(s, Plain))

Unbracketed(s) ==
    IF Len(s) > 1 /\ Head(s) = "[" /\ Last(s) = "]" THEN SubSeq(s, 2, Len(s) - 1) ELSE s

\* Without quotes, user, brackets and port, in lower case; None if the rest
\* cannot be a host name.
normalize_ssh_host(raw) ==
    LET host == Lower(BeforeFirst(Unbracketed(AfterLast(Unquoted(raw), "@")), ":"))
    IN IF \E i \in DOMAIN host : host[i] \in Foreign THEN <<>> ELSE host

\* A name from reverse DNS may end in dots.
normalize_peer_hostname(raw) ==
    LET end == SelectLastInSeq(raw, LAMBDA x : x # ".")
        trimmed == SubSeq(raw, 1, end)
        host == normalize_ssh_host(trimmed)
    IN IF host = <<>> THEN Lower(trimmed) ELSE host

Short(name) == BeforeFirst(name, ".")
Label(name) == Short(normalize_peer_hostname(name))

\* Variant: two names are the same only if they are equal.
SameHostExactly(known, name) == normalize_peer_hostname(known) = name

\* Variant: compares what follows the first label.
SameHostByDomain(known, name) ==
    AfterLast(normalize_peer_hostname(known), ".") = AfterLast(name, ".")

\* A known key and a normalized name are the same host if one is the other, or
\* one is the other's short form.
SameHost(known, name) ==
    LET knownName == normalize_peer_hostname(known) IN
    \/ knownName = name
    \/ Short(knownName) = name
    \/ knownName = Short(name)
    \/ Short(knownName) = Short(name)

-----------------------------------------------------------------------------
(* The destination in an ssh command line *)

Strings == Seq(STRING)

ssh_option_takes_value(arg) ==
    arg \in {<<"-", o>> : o \in {"b", "c", "D", "E", "e", "F", "I", "i", "J", "L", "l", "m",
                                 "O", "o", "p", "Q", "R", "S", "W", "w"}}

IsOption(arg) == Head(arg) = "-"

\* Variant: looks at the first letter only, as if no value could be inline.
ConsumesNextByLetter(arg) == ssh_option_takes_value(SubSeq(arg, 1, 2))

\* An option whose value is inline (-p22) does not consume the next argument.
ConsumesNext(arg) == ssh_option_takes_value(arg)

\* The first argument that is neither an option nor an option's value; after
\* "--", the first that does not look like an option.
extract_ssh_destination_host(args) ==
    LET AfterDashes(i) == SelectInSubSeq(args, i, Len(args), LAMBDA a : ~IsOption(a))
        place[i \in 1..(Len(args) + 2)] ==
            IF i > Len(args) THEN 0
            ELSE IF args[i] = <<"-", "-">> THEN AfterDashes(i + 1)
            ELSE IF ~IsOption(args[i]) THEN i
            ELSE place[i + (IF ConsumesNext(args[i]) THEN 2 ELSE 1)]
    IN IF place[1] = 0 THEN <<>> ELSE normalize_ssh_host(args[place[1]])

-----------------------------------------------------------------------------
(* Command lines as ssh takes them *)

\* The options that ssh gives a value (getopt in OpenSSH), which is the rest of
\* the argument or else the next one.
SshTakesValue == {"B", "b", "c", "D", "E", "e", "F", "I", "i", "J", "L", "l", "m",
                  "O", "o", "P", "p", "Q", "R", "S", "W", "w"}

\* Letters in one argument, the last perhaps with a value; w[1] is the "-".
ValueAt(w) == SelectInSubSeq(w, 2, Len(w), LAMBDA x : x \in SshTakesValue)

\* The words of an option: of its argument, and of its value.
IsOptionGroup(o) ==
    /\ o \in Seq(Strings) /\ o # <<>>
    /\ Len(o[1]) > 1 /\ IsOption(o[1]) /\ o[1] # <<"-", "-">>
    /\ ValueAt(o[1]) = 0 => Len(o) = 1

\* A host, after a user and "@", the head of an address (ssh://), or nothing.
IsDestination(user, typed) ==
    /\ user \in Strings /\ typed \in Strings /\ typed # <<>>
    /\ user # <<>> => Last(user) \in {"@", "/"}
    /\ Head(user \o typed) # "-"

IsCommandLine(c) ==
    /\ c.options \in Seq(Seq(Strings)) /\ \A i \in 1..Len(c.options) : IsOptionGroup(c.options[i])
    /\ c.dashes \in BOOLEAN
    /\ c.quote \in {<<>>} \cup {<<q>> : q \in Quote}
    /\ IsDestination(c.user, c.typed)
    /\ c.command \in Seq(Strings)

\* What the code makes no mistake about: flags and values of one word, except
\* those of -B, -P and of an option bundled with flags (-vp 22), and a host name
\* that does not follow "ssh://".
LegibleOption(o) ==
    \/ Len(o) = 1 /\ o[1] \notin {<<"-", x>> : x \in SshTakesValue}
    \/ Len(o) = 2 /\ o[1] \in {<<"-", x>> : x \in SshTakesValue \ {"B", "P"}}

Legible(c) ==
    /\ \A i \in 1..Len(c.options) : LegibleOption(c.options[i])
    /\ c.user # <<>> => Last(c.user) = "@"
    /\ \A i \in 1..Len(c.user) : c.user[i] \notin Quote
    /\ \A i \in 1..Len(c.typed) : c.typed[i] \notin Foreign

\* The destination as pgrep shows it, and the words after "PID ssh": options,
\* "--" or not, the destination, and a remote command.
Raw(c) == c.quote \o (c.user \o c.typed) \o c.quote

Args(c) ==
    FlattenSeq(c.options) \o (IF c.dashes THEN <<<<"-", "-">>>> ELSE <<>>) \o <<Raw(c)>>
        \o c.command
=============================================================================
