---------------------------- MODULE RequestHead ----------------------------
(***************************************************************************)
(* What cflare_request_process_socket (cflare/request.c) makes of a head   *)
(* that was read whole: the version, the header lines and what they say of *)
(* the host, the connection and the content.  A line is a record: what it  *)
(* is ("header", "unknown" for a header that is not registered, "folded"   *)
(* for one that begins with a space, "plain" for one without colon), which *)
(* header, the text behind its colon, and what lies behind the line in     *)
(* memory.  Module Connection leaves the outcome open; here it is          *)
(* determined.                                                             *)
(*                                                                         *)
(* Bounds: MaxHeaders for CFLARE_REQUEST_MAX_HEADERS (32), Size for the    *)
(* range of size_t (2^64).                                                 *)
(***************************************************************************)
EXTENDS Conversion

CONSTANTS MaxHeaders, Size

ASSUME RequestHeadAssumption == MaxHeaders \in Nat /\ Size \in Nat \ {0}

KeepAlive == 107    \* the token "keep-alive" in a value

\* The request before its first header line: out is "go", a status with which it
\* was refused, "abort", or "undefined".  The host is "none", the "text" of a
\* header, one whose length is "wrapped", or the "authority" of the URL.
Fresh ==
    [out |-> "go", count |-> 0, host |-> "none", path |-> "given", keepalive |-> TRUE, length |-> 0]

\* A line's value begins two characters behind the colon, whatever the first of
\* them is: behind the line when the colon is its last character.
Value(line) == IF line.text = <<>> THEN line.behind ELSE Tail(line.text)

\* A Content-Length header, which has been counted.
ContentLength(req, value) ==
    LET n == ToInteger(value)
    IN  [req EXCEPT !.length = IF n.out = "true" THEN n.value ELSE @,
                    !.out = [true |-> "go", undefined |-> "undefined", false |-> "400", abort |-> "abort"][n.out]]

\* A header that is known and finds room: it is stored, and some say more.
Stored(req, line) ==
    LET r == [req EXCEPT !.count = @ + 1]
    IN  CASE line.name = "host" -> [r EXCEPT !.host = IF line.text = <<>> THEN "wrapped" ELSE "text"]
          [] line.name = "connection" -> [r EXCEPT !.keepalive = KeepAlive \in ToSet(Value(line))]
          [] line.name = "content-length" -> ContentLength(r, Value(line))
          [] OTHER -> r

\* A slip: there is thought to be room for one header more.
HeaderLineFull(req, line) ==
    IF req.out # "go" THEN req
    ELSE CASE line.is \in {"folded", "plain"} -> [req EXCEPT !.out = "400"]
           [] line.is = "unknown" -> req
           [] line.is = "header" /\ req.count > MaxHeaders -> [req EXCEPT !.out = "413"]
           [] line.is = "header" /\ req.count <= MaxHeaders -> Stored(req, line)

\* A turn of the loop over the lines.  prev_header is never set, so that a folded
\* line is always refused as one with "nothing to continue".
HeaderLine(req, line) ==
    IF req.out # "go" THEN req
    ELSE CASE line.is \in {"folded", "plain"} -> [req EXCEPT !.out = "400"]
           [] line.is = "unknown" -> req
           [] line.is = "header" /\ req.count >= MaxHeaders -> [req EXCEPT !.out = "413"]
           [] line.is = "header" /\ req.count < MaxHeaders -> Stored(req, line)

\* The path of version 1.2 may be a URL with an authority: followed by a "path",
\* or "bare", which leaves a null path.  Its characters are moved by the length of
\* the host header's.
Authority(req, authority) ==
    CASE authority = "none" -> req
      [] authority # "none" /\ req.host = "wrapped" -> [req EXCEPT !.out = "undefined"]
      [] authority # "none" /\ req.host # "wrapped" ->
            [req EXCEPT !.host = "authority", !.path = IF authority = "bare" THEN "null" ELSE @]

\* The version, then.
Version(req, version, authority) ==
    IF req.out # "go" THEN req
    ELSE CASE version[1] # 1 -> [req EXCEPT !.out = "400"]
           [] version = <<1, 1>> -> [req EXCEPT !.out = IF req.host = "none" THEN "400" ELSE @]
           [] version = <<1, 2>> -> Authority(req, authority)
           [] OTHER -> [req EXCEPT !.keepalive = FALSE]

\* The request the "Request" hook is called with; the length becomes a size_t.
ProcessHead(lines, version, authority) ==
    LET req == Version(FoldLeft(HeaderLine, Fresh, lines), version, authority)
    IN  [req EXCEPT !.length = @ % Size]

-----------------------------------------------------------------------------
Known(lines, name) == {i \in DOMAIN lines : lines[i].is = "header" /\ lines[i].name = name}
AllKnown(lines) == {i \in DOMAIN lines : lines[i].is = "header"}
LastValue(lines, name) == Value(lines[Max(Known(lines, name))])

\* What the C standard defines: each length that is a numeral fits a double, and no
\* URL's authority is moved by a length that wrapped.
Definite(lines, version, authority) ==
    LET hosts == Known(lines, "host")
    IN  /\ \A i \in Known(lines, "content-length") : \A n \in Numerals(Value(lines[i])) : Fits(n)
        /\ version = <<1, 2>> /\ authority # "none" /\ hosts # {} => lines[Max(hosts)].text # <<>>

\* A head is accepted exactly if every line is a header, at most MaxHeaders of
\* them known, the value of every Content-Length a numeral, the version 1.x, and
\* 1.1 comes with a host.  Then the connection is to be kept for the versions 1.1
\* and 1.2 whose last Connection header, if any, asks for it; the content is as
\* long as the value of the last Content-Length means - which for a negative one
\* is nearly Size; and only a URL without a path leaves none.
ReadsHead(lines, version, authority) ==
    LET req == ProcessHead(lines, version, authority)
        lengths == Known(lines, "content-length")
    IN  /\ req.count <= MaxHeaders
        /\ Definite(lines, version, authority) =>
              /\ req.out = "go" <=>
                    /\ \A i \in DOMAIN lines : lines[i].is \in {"header", "unknown"}
                    /\ Cardinality(AllKnown(lines)) <= MaxHeaders
                    /\ \A i \in lengths : Numerals(Value(lines[i])) # {}
                    /\ version[1] = 1 /\ (version[2] = 1 => Known(lines, "host") # {})
              /\ req.out = "go" =>
                    /\ req.count = Cardinality(AllKnown(lines))
                    /\ req.keepalive <=>
                          /\ version[2] \in {1, 2}
                          /\ Known(lines, "connection") # {} =>
                                KeepAlive \in ToSet(LastValue(lines, "connection"))
                    /\ req.length \in IF lengths = {} THEN {0}
                                      ELSE {Meaning(n) % Size : n \in Numerals(LastValue(lines, "content-length"))}
                    /\ req.path = "null" <=> version[2] = 2 /\ authority = "bare"
=============================================================================
