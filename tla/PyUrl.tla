------------------------------- MODULE PyUrl -------------------------------
(***************************************************************************)
(* The parts of Python's str and urllib.parse that the asset modules call. *)
(*                                                                         *)
(* A string is a sequence of tokens.  The separators "/", ":", "@" and "." *)
(* are tokens of their own; every other token stands for a run of          *)
(* characters that contains none of them (a word, a scheme name, a run of  *)
(* digits).  Every operation below only looks for separators, so it does  *)
(* on the token sequence what the Python function does on the characters.  *)
(***************************************************************************)
EXTENDS Naturals, Sequences, SequencesExt

CONSTANTS
    Digits,                     \* the tokens that are runs of decimal digits (str.isdigit)
    UnsplitKeepsEmptyAuthority  \* TRUE: urlunsplit writes "//" for an empty netloc when
                                \* the path starts with "//" (newer CPython); FALSE: it
                                \* does not (CPython 3.11)

Seps == {"/", ":", "@", "."}

\* Position of the first / last occurrence of token c in s, 0 when absent.
Find(s, c)  == SelectInSeq(s, LAMBDA x : x = c)
RFind(s, c) == SelectLastInSeq(s, LAMBDA x : x = c)

\* s[i..], the empty sequence when i is past the end.
From(s, i) == SubSeq(s, i, Len(s))

\* s.lstrip(c), s.rstrip(c) and s.strip(c) for a one-character c.
RECURSIVE LStrip(_, _)
LStrip(s, c) == IF s # <<>> /\ Head(s) = c THEN LStrip(Tail(s), c) ELSE s

RStrip(s, c) == Reverse(LStrip(Reverse(s), c))

Strip(s, c) == RStrip(LStrip(s, c), c)

\* s.split(c): the pieces between occurrences of c, empty pieces included.
RECURSIVE Split(_, _)
Split(s, c) ==
    LET i == Find(s, c)
    IN  IF i = 0 THEN <<s>>
        ELSE <<SubSeq(s, 1, i - 1)>> \o Split(From(s, i + 1), c)

\* s.rsplit(c, 1): one piece when c is absent, else the parts around the last c.
RSplit1(s, c) ==
    LET i == RFind(s, c)
    IN  IF i = 0 THEN <<s>> ELSE <<SubSeq(s, 1, i - 1), From(s, i + 1)>>

\* The token "//".
Slash2 == <<"/", "/">>

(***************************************************************************)
(* urllib.parse.urlsplit restricted to what the asset URIs contain (no     *)
(* query, fragment or bracketed host): the scheme is the token before the *)
(* first ":", the authority (netloc) follows "//" up to the next "/", the *)
(* path is the rest.                                                       *)
(***************************************************************************)
IsSchemeToken(t) == t \notin Seps \cup Digits

UrlSplit(u) ==
    LET hasScheme == Len(u) >= 2 /\ u[2] = ":" /\ IsSchemeToken(u[1])
        scheme    == IF hasScheme THEN u[1] ELSE ""
        rest      == IF hasScheme THEN From(u, 3) ELSE u
        hasAuth   == Len(rest) >= 2 /\ SubSeq(rest, 1, 2) = Slash2
        afterSl   == From(rest, 3)
        cut       == Find(afterSl, "/")
        netloc    == IF ~hasAuth THEN <<>>
                     ELSE IF cut = 0 THEN afterSl ELSE SubSeq(afterSl, 1, cut - 1)
        path      == IF ~hasAuth THEN rest
                     ELSE IF cut = 0 THEN <<>> ELSE From(afterSl, cut)
    IN  [scheme |-> scheme, netloc |-> netloc, path |-> path]

(***************************************************************************)
(* urllib.parse.urlunsplit; no asset scheme is in its uses_netloc list.   *)
(* "//" + netloc is written when the netloc is not empty; a path that     *)
(* starts with "//" under an empty netloc gets "//" in front of it only   *)
(* where UnsplitKeepsEmptyAuthority holds.                                  *)
(***************************************************************************)
UrlUnsplit(p) ==
    LET url  == IF p.netloc # <<>> /\ p.path # <<>> /\ Head(p.path) # "/"
                THEN <<"/">> \o p.path ELSE p.path
        auth == IF p.netloc # <<>> THEN Slash2 \o p.netloc \o url
                ELSE IF UnsplitKeepsEmptyAuthority /\ IsPrefix(Slash2, url) THEN Slash2 \o url
                ELSE url
    IN  IF p.scheme # "" THEN <<p.scheme, ":">> \o auth ELSE auth

(***************************************************************************)
(* SplitResult.port: the host part is what follows the last "@", the port *)
(* what follows the first ":" of it; an empty port is None, a port that is *)
(* not all digits raises ValueError("Port could not be cast ...").         *)
(***************************************************************************)
HostInfo(netloc) == From(netloc, RFind(netloc, "@") + 1)

PortText(netloc) ==
    LET h == HostInfo(netloc)
        i == Find(h, ":")
    IN  IF i = 0 THEN <<>> ELSE From(h, i + 1)

PortIsNone(netloc) == PortText(netloc) = <<>>

PortIsNumeric(netloc) == \A k \in DOMAIN PortText(netloc) : PortText(netloc)[k] \in Digits

\* The scheme written as a namespace prefix, f"{scheme}://".
SchemePrefix(scheme) == <<scheme, ":">> \o Slash2

=============================================================================
