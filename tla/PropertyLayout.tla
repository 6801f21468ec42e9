--------------------------- MODULE PropertyLayout ---------------------------
(***************************************************************************)
(* Where a class keeps a property, and which function of the name it has:  *)
(* walker.rs of the DLL walks the fields (the functions) of the class and  *)
(* of its supers and caches the list by the address of the class           *)
(* (prop_cache, func_cache), ops/reflection.rs takes the first of the      *)
(* name, to answer with or to call, and Ue5Session caches the properties   *)
(* it is told by class and name (resolved_props).  In the DLL the pipe     *)
(* worker and the Lua worker do this at once; only the list is under a     *)
(* lock, the walk is not.                                                  *)
(*                                                                         *)
(* A class gets its fields linked some time after it appears (the loading  *)
(* of a Blueprint), and a name can fail to decode, which leaves a member   *)
(* in the list under another name.  A class is not unloaded, so the reads of  *)
(* its memory succeed.  A property stands for its offset, size, kind and   *)
(* defined_in_class: the class that declares it and its name.              *)
(*                                                                         *)
(* The two caches have nothing in common, so a behaviour is about one of   *)
(* them: about properties, or about functions.                             *)
(***************************************************************************)
EXTENDS Naturals, Sequences, SequencesExt, FiniteSets

CONSTANTS
    Classes, Names,
    Super,       \* the super of each class, or NoClass
    Fields,      \* the fields each class declares, in order
    Functions,   \* the functions each class declares, in order
    Parms,       \* the ParmsSize of the functions of each name
    Native,      \* the classes linked from the start
    MaxHops      \* the bound of the walk along the supers (64)

NoClass == "none"

\* c and its supers: what is in every set that has c, and with a class its super.
Chain(c) ==
    {d \in Classes :
        \A s \in SUBSET Classes :
            c \in s /\ (\A e \in s : Super[e] \in s \cup {NoClass}) => d \in s}

Workers == {"pipe", "lua"}
Kinds == {"property", "function"}
Unknown == "UnknownProp"
Member == Classes \X (Names \cup {Unknown})

\* ProcessEvent has not been called yet.
NoCall == [class |-> NoClass, fn |-> <<NoClass, Unknown>>, sent |-> 0, buffer |-> 0]

\* A class may declare a property or a function in place of a super's, and the
\* walk may have to end before it has seen all supers.
ASSUME LayoutAssumption ==
    /\ NoClass \notin Classes /\ Unknown \notin Names
    /\ Super \in [Classes -> Classes \cup {NoClass}]
    /\ {Fields, Functions} \subseteq [Classes -> Seq(Names)]
    /\ Parms \in [Names -> Nat]
    /\ Native \subseteq Classes /\ MaxHops \in Nat

VARIABLES
    about,     \* what this behaviour is about
    linked,    \* the classes whose members are in place
    cached,    \* prop_cache or func_cache of the DLL: the list for each class walked
    walker,    \* the walk of each worker of the DLL: its request, the class it is at, its list
    known,     \* resolved_props of the session: the property of each class and name
    called     \* the call of ProcessEvent just made: the class asked, the function, the bytes

layoutVars == <<about, linked, cached, walker, known, called>>

Resting == [class |-> NoClass, name |-> "", cur |-> NoClass, hops |-> 0, list |-> <<>>]

LayoutTypeOK ==
    /\ about \in Kinds
    /\ linked \subseteq Classes
    /\ \A c \in DOMAIN cached : c \in Classes /\ cached[c] \in Seq(Member)
    /\ walker \in [Workers ->
           [class : Classes \cup {NoClass}, name : Names \cup {""}, cur : Classes \cup {NoClass},
            hops : 0 .. MaxHops, list : Seq(Member)]]
    /\ \A k \in DOMAIN known : known[k] \in Member
    /\ called = NoCall \/ (called.class \in Classes /\ called.fn \in Member)

LayoutInit ==
    /\ about \in Kinds
    /\ linked = Native
    /\ cached = <<>> /\ called = NoCall
    /\ walker = [w \in Workers |-> Resting]
    /\ known = <<>>

\* resolved_props is keyed by the class's address and the name in lower case.
KnownKey_NameOnly(c, n) == <<n>>
KnownKey(c, n) == <<c, n>>

\* The game has linked a class, its super before it.
Linked(c) ==
    /\ c \notin linked /\ Super[c] \in linked \cup {NoClass}
    /\ linked' = linked \cup {c}
    /\ called' = NoCall
    /\ UNCHANGED <<about, cached, walker, known>>

\* The member of the name that comes first in the list, if there is one.
FirstNamed(list, n) ==
    LET hits == {i \in DOMAIN list : list[i][2] = n}
    IN  {list[i] : i \in {j \in hits : \A k \in hits : j <= k}}

\* The answer to a feature comes back through the session, which keeps what
\* exists; that a property is missing it asks again.  A script's answer does not.
AnswerFrom(w, c, n, list) ==
    LET key == KnownKey(c, n)
        hit == FirstNamed(list, n)
    IN  known' = IF w = "pipe" /\ hit # {}
                 THEN [k \in DOMAIN known \cup {key} |->
                          IF k = key THEN CHOOSE f \in hit : TRUE ELSE known[k]]
                 ELSE known

Larger(a, b) == IF a > b THEN a ELSE b

\* call_ufunction with the list at hand: no such function, more bytes than it
\* takes, or ProcessEvent with the caller's bytes, of any number, and zeros behind.
CallFrom(c, n, list) ==
    LET hit == FirstNamed(list, n) IN
    \E sent \in 0 .. Parms[n] + 1 :
        called' = IF hit = {} \/ (sent > Parms[n] /\ Parms[n] > 0) THEN NoCall
                  ELSE [class |-> c, fn |-> CHOOSE f \in hit : TRUE, sent |-> sent,
                        buffer |-> Larger(Parms[n], sent)]

Served(w, c, n, list) ==
    IF about = "property"
    THEN AnswerFrom(w, c, n, list) /\ called' = NoCall
    ELSE CallFrom(c, n, list) /\ UNCHANGED known

\* A request the session cannot answer itself: from the list of the class if
\* there is one, or after a walk.
Asked_L(w, c, n) ==
    /\ walker[w].class = NoClass
    /\ IF c \in DOMAIN cached
       THEN Served(w, c, n, cached[c]) /\ UNCHANGED walker
       ELSE /\ walker' = [walker EXCEPT ![w] =
                             [class |-> c, name |-> n, cur |-> c, hops |-> 0, list |-> <<>>]]
            /\ called' = NoCall /\ UNCHANGED known
    /\ UNCHANGED <<about, linked, cached>>

ResolveProperty(w, c, n) ==
    /\ about = "property"
    /\ w = "pipe" => KnownKey(c, n) \notin DOMAIN known
    /\ Asked_L(w, c, n)

CallUFunction(w, c, n) == about = "function" /\ Asked_L(w, c, n)

\* The members of one class as the walk sees them: those linked by now, of
\* which one may go by another name, with the class as defined_in_class.
Seen(c) ==
    LET members == IF about = "property" THEN Fields[c] ELSE Functions[c] IN
    IF c \notin linked THEN {<<>>}
    ELSE {[i \in DOMAIN members |-> <<c, IF i \in lost THEN Unknown ELSE members[i]>>] :
              lost \in {s \in SUBSET DOMAIN members : Cardinality(s) <= 1}}

Walked(r) == r.cur = NoClass \/ r.hops = MaxHops

\* One class of the walk.
WalkClass(w) ==
    LET r == walker[w] IN
    /\ r.class # NoClass /\ ~Walked(r)
    /\ \E members \in Seen(r.cur) :
           walker' = [walker EXCEPT ![w] =
                         [r EXCEPT !.list = @ \o members, !.cur = Super[r.cur], !.hops = @ + 1]]
    /\ called' = NoCall
    /\ UNCHANGED <<about, linked, cached, known>>

\* entry().or_insert_with(): the list that came first stays, and serves.
Insert(w) ==
    LET r == walker[w]
        list == IF r.class \in DOMAIN cached THEN cached[r.class] ELSE r.list
    IN
    /\ r.class # NoClass /\ Walked(r)
    /\ cached' = [c \in DOMAIN cached \cup {r.class} |-> IF c = r.class THEN list ELSE cached[c]]
    /\ Served(w, r.class, r.name, list)
    /\ walker' = [walker EXCEPT ![w] = Resting]
    /\ UNCHANGED <<about, linked>>

LayoutNext ==
    \/ \E c \in Classes : Linked(c)
    \/ \E w \in Workers :
        \/ \E c \in Classes, n \in Names : ResolveProperty(w, c, n) \/ CallUFunction(w, c, n)
        \/ WalkClass(w)
        \/ Insert(w)

LayoutSpec == LayoutInit /\ [][LayoutNext]_layoutVars

-----------------------------------------------------------------------------
\* What the session answers from its cache, however early the class was walked
\* and whoever's list came first, is the class's own property of that name: it is
\* declared by the class or by a super.  So is the function that is called, and the
\* engine finds all the bytes it takes.  A list cut short may lack a member, but
\* never moves one.
ServedFits ==
    /\ \A c \in Classes, n \in Names :
        KnownKey(c, n) \in DOMAIN known =>
            LET f == known[KnownKey(c, n)]
            IN  f[1] \in Chain(c) /\ f[2] = n /\ n \in Range(Fields[f[1]])
    /\ called # NoCall =>
            /\ called.fn[1] \in Chain(called.class)
            /\ called.fn[2] \in Range(Functions[called.fn[1]])
            /\ called.buffer >= called.sent /\ called.buffer >= Parms[called.fn[2]]
=============================================================================
