----------------------------- MODULE FontCache -----------------------------
(***************************************************************************)
(* The fonts of a document (pdfrum-font, load.rs), shared by every thread  *)
(* that renders or reads text: looked up under a read lock, loaded under   *)
(* none, inserted under the write lock.  A font written inline has no      *)
(* reference and never comes here.                                         *)
(***************************************************************************)
EXTENDS Naturals

CONSTANTS
    Threads,      \* threads that ask for fonts
    Refs,         \* references of /Font resources
    Unloadable,   \* those that do not load as a font
    MaxFonts,     \* bound: fonts loaded
    NoFont        \* what an unloadable reference loads as

VARIABLES
    loaded,    \* FontCache::loaded: a font, by its identity, or NoFont, for each reference it has
    nextId,    \* FontCache::next_id
    asks,      \* what each thread asks for
    copy,      \* what its own load made
    at,        \* where each thread is
    answers    \* history: what was answered for each reference

vars == <<loaded, nextId, asks, copy, at, answers>>

Fonts == 0..(MaxFonts - 1) \union {NoFont}

TypeOK ==
    /\ DOMAIN loaded \subseteq Refs
    /\ \A r \in DOMAIN loaded : loaded[r] \in Fonts
    /\ nextId \in 0..MaxFonts
    /\ asks \in [Threads -> Refs]
    /\ copy \in [Threads -> Fonts]
    /\ at \in [Threads -> {"idle", "read", "load", "write"}]
    /\ answers \in [Refs -> SUBSET Fonts]

Init ==
    /\ loaded = <<>> /\ nextId = 0
    /\ asks \in [Threads -> Refs]
    /\ copy = [t \in Threads |-> NoFont]
    /\ at = [t \in Threads |-> "idle"]
    /\ answers = [r \in Refs |-> {}]

Call(t) ==
    /\ at[t] = "idle"
    /\ \E r \in Refs : asks' = [asks EXCEPT ![t] = r]
    /\ at' = [at EXCEPT ![t] = "read"]
    /\ UNCHANGED <<loaded, nextId, copy, answers>>

Answer(t, font) ==
    /\ answers' = [answers EXCEPT ![asks[t]] = @ \union {font}]
    /\ at' = [at EXCEPT ![t] = "idle"]

\* Under the read lock.
Hit(t) ==
    /\ at[t] = "read" /\ asks[t] \in DOMAIN loaded
    /\ Answer(t, loaded[asks[t]])
    /\ UNCHANGED <<loaded, nextId, asks, copy>>

Miss(t) ==
    /\ at[t] = "read" /\ asks[t] \notin DOMAIN loaded
    /\ at' = [at EXCEPT ![t] = "load"]
    /\ UNCHANGED <<loaded, nextId, asks, copy, answers>>

\* Without a lock: a font takes the next identity.
Load(t) ==
    /\ at[t] = "load" /\ nextId < MaxFonts
    /\ copy'   = [copy EXCEPT ![t] = IF asks[t] \in Unloadable THEN NoFont ELSE nextId]
    /\ nextId' = IF asks[t] \in Unloadable THEN nextId ELSE nextId + 1
    /\ at' = [at EXCEPT ![t] = "write"]
    /\ UNCHANGED <<loaded, asks, answers>>

\* Mistake: the last copy stays.
PublishOver(t) ==
    /\ at[t] = "write"
    /\ loaded' = [r \in DOMAIN loaded \union {asks[t]} |->
                     IF r = asks[t] THEN copy[t] ELSE loaded[r]]
    /\ Answer(t, copy[t])
    /\ UNCHANGED <<nextId, asks, copy>>

\* Under the write lock: the first copy stays, and is the answer.
Publish(t) ==
    /\ at[t] = "write"
    /\ loaded' = [r \in DOMAIN loaded \union {asks[t]} |->
                     IF r \in DOMAIN loaded THEN loaded[r] ELSE copy[t]]
    /\ Answer(t, loaded'[asks[t]])
    /\ UNCHANGED <<nextId, asks, copy>>

Next == \E t \in Threads : Call(t) \/ Hit(t) \/ Miss(t) \/ Load(t) \/ Publish(t)

Spec == Init /\ [][Next]_vars

\* Every thread that asked for a reference, whenever it did, was answered
\* the same font, or that there is none: text extraction compares fonts by
\* instance (get_or_load).
OneInstance == \A r \in Refs : \A f, g \in answers[r] : f = g
============================================================================
