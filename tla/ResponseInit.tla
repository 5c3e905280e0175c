---------------------------- MODULE ResponseInit ----------------------------
(***************************************************************************)
(* new Response(body, {status, headers}): how the values a script gives    *)
(* become the status and the headers of the HTTP response.                 *)
(*                                                                         *)
(* The constructor is a sequential program: "at" is where it is, and its   *)
(* two loops are an action for one round each.  It stops at "ok", "throws" *)
(* (the script gets an exception) or "abort" (a ToLocalChecked or FromJust *)
(* ends the process).                                                      *)
(*                                                                         *)
(* A script value is what the conversion can tell apart.  Symbol stands    *)
(* for a value that has no string: its ToString throws.                    *)
(***************************************************************************)
EXTENDS Naturals, Sequences, FiniteSets

CONSTANTS Name,       \* names of headers, as a script writes them
          Value,      \* their values
          Symbol,
          Lower,      \* the names, in lower case: libhv's http_headers does
                      \* not tell cases apart
          MaxItems    \* bound on the entries of one headers value

ASSUME LowerAssumption == Lower \in [Name -> Name]
ASSUME SymbolAssumption == Symbol \notin Name \cup Value
ASSUME MaxItemsAssumption == MaxItems \in Nat

VARIABLES input,      \* the second argument, with its status and headers if any
          at,         \* where the constructor is
          map,        \* header_values of init_headers: the converted pairs
          filled,     \* how many of them were appended to the headers
          headers,    \* the FetchHeaders of init_headers
          response    \* the status and headers of the FetchResponse

vars == <<input, at, map, filled, headers, response>>

-----------------------------------------------------------------------------
(* What scripts pass.                                                      *)

\* Lists of at most MaxItems elements.
Short(S) == UNION {[1 .. n -> S] : n \in 0 .. MaxItems}

Pair == (Name \cup {Symbol}) \X (Value \cup {Symbol})

\* An element of an array of headers: an array of some length, or not one.
List(elems) == [isArray |-> TRUE, elems |-> elems]
NoList == [isArray |-> FALSE, elems |-> <<>>]
Entry ==
    {List(p) : p \in Pair} \cup {List(<<n>>) : n \in Name}
        \cup {List(Append(p, p[2])) : p \in Pair} \cup {NoList}

\* The headers given: an array of entries, an object with its properties, or
\* something else.
Absent == [kind |-> "absent", items |-> <<>>]
HeadersGiven ==
    {[kind |-> "array", items |-> s] : s \in Short(Entry)}
    \cup {[kind |-> "object", items |-> s] :
             s \in {t \in Short(Name \X (Value \cup {Symbol})) :
                       \A i, j \in DOMAIN t : t[i][1] = t[j][1] => i = j}}
    \cup {[kind |-> "other", items |-> <<>>], Absent}

\* The second argument.
OptionsGiven == {"absent", "object", "other"}

\* The status given: an int32, a number that is none, or not a number.
StatusGiven == {"absent", "int32", "number", "other"}

NoHeaders == [n \in {} |-> <<>>]

Init ==
    /\ input \in [options : OptionsGiven, status : StatusGiven, headers : HeadersGiven]
    /\ input.options # "object" => input.status = "absent" /\ input.headers = Absent
    /\ at = "options"
    /\ map = <<>>
    /\ filled = 0
    /\ headers = NoHeaders
    /\ response = [status |-> "default", headers |-> NoHeaders]

-----------------------------------------------------------------------------
(* fetch_response_js_constructor.                                          *)

Items == input.headers.items

ReadOptions ==
    /\ at = "options"
    /\ at' = CASE input.options = "absent" -> "ok"
               [] input.options = "object" -> "status"
               [] input.options = "other" -> "throws"
    /\ UNCHANGED <<input, map, filled, headers, response>>

\* get_int32: a number that is no int32 is converted with an empty context
\* handle, anything that is no number is 0.
ReadStatus ==
    /\ at = "status"
    /\ at' = IF input.status = "number" THEN "abort" ELSE "headers"
    /\ response' = [response EXCEPT !.status =
                       CASE input.status = "int32" -> "given"
                         [] input.status = "other" -> "zero"
                         [] OTHER -> @]
    /\ UNCHANGED <<input, map, filled, headers>>

\* is_sequence: the first element of an empty array is undefined.
IsSequence(given) ==
    \/ given.kind = "object"
    \/ given.kind = "array" /\ given.items # <<>>

\* If the headers are no sequence init_headers throws and returns headers that
\* are empty; so it does when convert_object_map fails later.
ReadHeaders ==
    /\ at = "headers"
    /\ at' = IF input.headers = Absent THEN "ok"
             ELSE IF IsSequence(input.headers) THEN "convert" ELSE "throws"
    /\ UNCHANGED <<input, map, filled, headers, response>>

\* The round that comes next in a loop of convert_object_map is for this item.
HasNext == at = "convert" /\ Len(map) < Len(Items)
NextItem == Items[Len(map) + 1]

\* make_pair(to_string(key), to_string(value)).
PushBack(key, value) ==
    /\ IF Symbol \in {key, value}
       THEN at' = "abort" /\ UNCHANGED map
       ELSE map' = Append(map, <<key, value>>) /\ UNCHANGED at
    /\ UNCHANGED <<input, filled, headers, response>>

\* Bug: longer lists pass.
WrongLengthShort(elems) == Len(elems) < 2

WrongLength(elems) == Len(elems) # 2

\* The loop over an array, which returns at the first entry that is no pair.
RejectEntry ==
    /\ HasNext /\ input.headers.kind = "array"
    /\ ~NextItem.isArray \/ WrongLength(NextItem.elems)
    /\ at' = "throws"
    /\ UNCHANGED <<input, map, filled, headers, response>>

ConvertEntry ==
    /\ HasNext /\ input.headers.kind = "array"
    /\ NextItem.isArray /\ ~WrongLength(NextItem.elems)
    /\ PushBack(NextItem.elems[1], NextItem.elems[2])

\* The loop over the properties of an object.
ConvertProperty ==
    /\ HasNext /\ input.headers.kind = "object"
    /\ PushBack(NextItem[1], NextItem[2])

Converted ==
    /\ at = "convert" /\ Len(map) = Len(Items)
    /\ at' = "append"
    /\ UNCHANGED <<input, map, filled, headers, response>>

\* Bug: set instead of append.
Replaced(h, name, value) ==
    LET n == Lower[name]
    IN  [m \in DOMAIN h \cup {n} |-> IF m = n THEN <<value>> ELSE h[m]]

\* FetchHeaders::append: the values of one name are joined, here as a sequence.
Appended(h, name, value) ==
    LET n == Lower[name]
    IN  [m \in DOMAIN h \cup {n} |->
            IF m # n THEN h[m]
            ELSE IF n \in DOMAIN h THEN Append(h[n], value) ELSE <<value>>]

\* The loop of init_headers.
AppendHeader ==
    /\ at = "append" /\ filled < Len(map)
    /\ headers' = Appended(headers, map[filled + 1][1], map[filled + 1][2])
    /\ filled' = filled + 1
    /\ UNCHANGED <<input, at, map, response>>

SetHeaders ==
    /\ at = "append" /\ filled = Len(map)
    /\ response' = [response EXCEPT !.headers = headers]
    /\ at' = "ok"
    /\ UNCHANGED <<input, map, filled, headers>>

\* The constructor has returned, or the process has ended.
Ended == at \in {"ok", "throws", "abort"} /\ UNCHANGED vars

Next ==
    \/ ReadOptions \/ ReadStatus \/ ReadHeaders
    \/ RejectEntry \/ ConvertEntry \/ ConvertProperty \/ Converted
    \/ AppendHeader \/ SetHeaders
    \/ Ended

Spec == Init /\ [][Next]_vars

-----------------------------------------------------------------------------
(* Properties.                                                             *)

\* The shape of the variables.
TypeOK ==
    /\ input \in [options : OptionsGiven, status : StatusGiven, headers : HeadersGiven]
    /\ at \in {"options", "status", "headers", "convert", "append",
               "ok", "throws", "abort"}
    /\ map \in Seq(Name \X Value)
    /\ filled \in 0 .. Len(map)
    /\ DOMAIN headers \subseteq Name
    /\ headers \in [DOMAIN headers -> Seq(Value)]
    /\ response.status \in {"default", "given", "zero"}
    /\ response.headers \in {NoHeaders, headers}

\* The key and the value of the item i, and whether it is one at all.
Elems(i) == IF input.headers.kind = "array" THEN Items[i].elems ELSE Items[i]
Malformed(i) ==
    input.headers.kind = "array" /\ (~Items[i].isArray \/ Len(Items[i].elems) # 2)
NoString(i) == ~Malformed(i) /\ Symbol \in {Elems(i)[1], Elems(i)[2]}
Proper(i) == ~Malformed(i) /\ ~NoString(i)

\* The items up to k that give a value for the name n, in any case.
Given(n, k) == {i \in 1 .. k : Lower[Elems(i)[1]] = n}

\* The headers h have, for each name, the values of the first k items for it:
\* as many, and that of the item i in the place of i among them.
JoinedUpTo(h, k) ==
    \A n \in Name :
        IF Given(n, k) = {} THEN n \notin DOMAIN h
        ELSE /\ n \in DOMAIN h
             /\ Len(h[n]) = Cardinality(Given(n, k))
             /\ \A i \in Given(n, k) :
                   h[n][Cardinality(Given(n, i))] = Elems(i)[2]

\* A response that was made has, for each name, exactly the values given under
\* it in any case, in the order in which they were given (append, setHeaders).
HeadersAreJoined == at = "ok" => JoinedUpTo(response.headers, Len(Items))

\* A response is made only from pairs, all or none: an entry that is no pair
\* makes the constructor throw wherever it is, unless the process ended before
\* it, and then the response has no headers (convert_object_map, init_headers).
OnlyPairsAreTaken ==
    /\ at = "ok" => \A i \in DOMAIN Items : Proper(i)
    /\ at = "throws" => response.headers = NoHeaders
    /\ at \in {"ok", "throws", "abort"} /\ input.status # "number" =>
          \A i \in DOMAIN Items :
              Malformed(i) /\ (\A j \in 1 .. i - 1 : Proper(j)) => at = "throws"
=============================================================================
