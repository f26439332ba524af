------------------------------ MODULE PoolURI -------------------------------
(***************************************************************************)
(* libpool/PoolURI: the parts of a pool's URI.                             *)
(*                                                                         *)
(* A text is a sequence of tokens: a separator, an encoded character       *)
(* ("%2e"), the sign of a malformed one ("%"), a number, or a word that    *)
(* has none of them.                                                       *)
(***************************************************************************)
EXTENDS Integers, Sequences, SequencesExt

CONSTANTS
    Numbers,           \* tokens of digits, with their values
    Lower,             \* words with capitals, in lower case
    Addresses          \* texts that are IP addresses, with their type

Scheme(family, secure, version) == [family |-> family, secure |-> secure, version |-> version]

s_schemes ==
    [s \in {"stratum+tcp", "stratum+ssl"} |-> Scheme("STRATUM", s = "stratum+ssl", 0)]
    @@ [s \in {"stratum1+tcp", "stratum1+ssl"} |-> Scheme("STRATUM", s = "stratum1+ssl", 1)]
    @@ [s \in {"stratum2+tcp", "stratum2+ssl"} |-> Scheme("STRATUM", s = "stratum2+ssl", 2)]
    @@ [s \in {"stratum3+tcp", "stratum3+ssl"} |-> Scheme("STRATUM", s = "stratum3+ssl", 3)]
    @@ [s \in {"http", "getwork"} |-> Scheme("GETWORK", FALSE, 0)]
    @@ [s \in {"stratum", "stratums"} |-> Scheme("STRATUM", s = "stratums", 999)]
    @@ [s \in {"simulation"} |-> Scheme("SIMULATION", FALSE, 999)]

-----------------------------------------------------------------------------
(* Texts *)

LastAt(s, c) == SelectLastInSeq(s, LAMBDA x : x = c)
Has(s, c) == c \in ToSet(s)
Before(s, i) == SubSeq(s, 1, i - 1)
After(s, i) == SubSeq(s, i + 1, Len(s))
Strict(s) == s \o <<>>      \* s, with its elements computed once
to_lower(s) == Strict([i \in DOMAIN s |-> IF s[i] \in DOMAIN Lower THEN Lower[s[i]] ELSE s[i]])

\* boost::replace_all
replace_all(s, old, new) ==
    LET from[i \in 1..(Len(s) + 1)] ==
            IF i > Len(s) THEN <<>>
            ELSE IF i + Len(old) - 1 <= Len(s) /\ SubSeq(s, i, i + Len(old) - 1) = old
                 THEN new \o from[i + Len(old)]
            ELSE <<s[i]>> \o from[i + 1]
    IN from[1]

Encoding == [c \in {".", ":", "@", "?", "#", "/", "+"} |->
                CASE c = "." -> "%2e" [] c = ":" -> "%3a" [] c = "@" -> "%40"
                  [] c = "?" -> "%3f" [] c = "#" -> "%23" [] c = "/" -> "%2f" [] c = "+" -> "%2b"]

Decoded(token) ==
    CASE token \in Range(Encoding) -> CHOOSE c \in DOMAIN Encoding : Encoding[c] = token
      [] token = "+" -> " "
      [] OTHER -> token

\* A text with a malformed character is left as it is.
url_decode(s) == IF Has(s, "%") THEN s ELSE Strict([i \in DOMAIN s |-> Decoded(s[i])])

\* Three groups around x and y, each as long as can be, the first one first; <<0, 0>> if there
\* is no x before a y.
TwoMarks(s, x, y) ==
    LET j == LastAt(s, y)
        i == IF j = 0 THEN 0 ELSE LastAt(Before(s, j), x)
    IN IF i = 0 THEN <<0, 0>> ELSE <<i, j>>

-----------------------------------------------------------------------------
(* The user, the worker and the password *)

\* The k-th part in backticks, without them: the backticks are paired from the left.
Ticks(s) == SelectSeq([i \in DOMAIN s |-> i], LAMBDA i : s[i] = "tick")
Blocks(s) ==
    LET t == Ticks(s)
    IN Strict([k \in 1..(Len(t) \div 2) |-> SubSeq(s, t[2 * k - 1] + 1, t[2 * k] - 1)])
Names == <<"_0", "_1", "_2">>
Ticked(s) == <<"tick">> \o s \o <<"tick">>

Hidden(s, blocks) ==
    LET h[k \in 0..Len(blocks)] ==
            IF k = 0 THEN s ELSE replace_all(h[k - 1], Ticked(blocks[k]), Ticked(<<Names[k]>>))
    IN h[Len(blocks)]
Shown(s, blocks) ==
    LET h[k \in 0..Len(blocks)] ==
            IF k = 0 THEN s ELSE replace_all(h[k - 1], Ticked(<<Names[k]>>), blocks[k])
    IN h[Len(blocks)]

NoUser == [user |-> <<>>, worker |-> <<>>, password |-> <<"X">>]

\* user, user.worker, user.worker:password or user:password
UserPatterns(s) ==
    LET both == TwoMarks(s, ".", ":")
        colon == LastAt(s, ":")
        dot == LastAt(s, ".")
    IN CASE both[1] > 0 ->
              [user |-> Before(s, both[1]), worker |-> SubSeq(s, both[1] + 1, both[2] - 1),
               password |-> After(s, both[2])]
         [] both[1] = 0 /\ colon > 0 ->
              [NoUser EXCEPT !.user = Before(s, colon), !.password = After(s, colon)]
         [] both[1] = 0 /\ colon = 0 /\ dot > 0 ->
              [NoUser EXCEPT !.user = Before(s, dot), !.worker = After(s, dot)]
         [] OTHER -> [NoUser EXCEPT !.user = s]

\* mutant: the parts in backticks are not hidden from the patterns
UserInfo_Plain(userinfo, authority) == UserPatterns(userinfo)
\* The parts in backticks are looked for in the whole authority.
UserInfo(userinfo, authority) ==
    LET blocks == Blocks(authority)
        parts == UserPatterns(Hidden(userinfo, blocks))
    IN [user |-> Shown(parts.user, blocks), worker |-> Shown(parts.worker, blocks),
        password |-> Shown(parts.password, blocks)]

-----------------------------------------------------------------------------
(* The host, the port and the path *)

\* [0-9]{1,5}; lexical_cast<uint16_t> throws above 65535.
IsPort(token) == token \in DOMAIN Numbers /\ Numbers[token] <= 99999

HostInfo(hostinfo) ==
    LET n == Len(hostinfo)
    IN IF n >= 2 /\ hostinfo[n - 1] = ":" /\ IsPort(hostinfo[n])
       THEN [host |-> SubSeq(hostinfo, 1, n - 2), port |-> Numbers[hostinfo[n]]]
       ELSE [host |-> hostinfo, port |-> 0]

PathInfo(s) ==
    LET both == TwoMarks(s, "?", "#")
        hash == LastAt(s, "#")
        query == LastAt(s, "?")
        only(path) == [path |-> path, query |-> <<>>, fragment |-> <<>>]
    IN CASE both[1] > 0 ->
              [path |-> Before(s, both[1]), query |-> SubSeq(s, both[1] + 1, both[2] - 1),
               fragment |-> After(s, both[2])]
         [] both[1] = 0 /\ hash > 0 -> [only(Before(s, hash)) EXCEPT !.fragment = After(s, hash)]
         [] both[1] = 0 /\ hash = 0 /\ query > 0 ->
              [only(Before(s, query)) EXCEPT !.query = After(s, query)]
         [] OTHER -> only(s)

\* Names of letters, digits and hyphens, with dots between them.
IsDnsName(s) ==
    \A i \in DOMAIN s :
        IF i % 2 = 0 THEN s[i] = "." ELSE s[i] \notin {".", ":", "@", "?", "#", "tick", "%"}
HostType(host) ==
    IF host \in DOMAIN Addresses THEN Addresses[host]
    ELSE IF Len(host) % 2 = 1 /\ IsDnsName(host) THEN "Dns" ELSE "Basic"

-----------------------------------------------------------------------------
(* The constructor *)

Clean(s) == url_decode(SelectSeq(s, LAMBDA c : c # "tick"))

\* What a URI is before its text is parsed, and stays when there is no "scheme://".
Blank == [scheme |-> "", user |-> <<>>, worker |-> <<>>, password |-> <<"X">>, host |-> <<>>,
          port |-> 0, path |-> <<>>, query |-> <<>>, fragment |-> <<>>, type |-> "Unknown"]
Throws == [Blank EXCEPT !.scheme = "throws"]    \* not the name of a scheme

Parts(scheme, authority) ==
    LET at == LastAt(authority, "@")
        userinfo == Before(authority, at)
        user == IF userinfo = <<>> THEN NoUser ELSE UserInfo(userinfo, authority)
        urlinfo == After(authority, at)
        slash == SelectInSeq(urlinfo, LAMBDA c : c = "/")
        host == HostInfo(to_lower(IF slash = 0 THEN urlinfo ELSE Before(urlinfo, slash)))
        path == PathInfo(IF slash = 0 THEN <<>> ELSE SubSeq(urlinfo, slash, Len(urlinfo)))
    IN IF host.port > 65535 \/ host.host = <<>> THEN Throws
       ELSE [scheme |-> scheme,
             user |-> Clean(user.user), worker |-> Clean(user.worker), password |-> Clean(user.password),
             host |-> host.host, port |-> host.port, type |-> HostType(host.host),
             path |-> url_decode(path.path), query |-> url_decode(path.query),
             fragment |-> url_decode(path.fragment)]

\* Before(s, 0) is empty and After(s, 0) is s.
URI(text, sim) ==
    IF Len(text) < 2 \/ text[2] # "://" THEN Blank
    ELSE LET scheme == to_lower(<<text[1]>>)[1]
             authority == After(text, 2)
         IN IF authority = <<>> \/ (~sim /\ scheme = "simulation") \/ scheme \notin DOMAIN s_schemes
            THEN Throws
            ELSE Parts(scheme, authority)

=============================================================================
