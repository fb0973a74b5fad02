--------------------------- MODULE EventListeners ---------------------------
(***************************************************************************)
(* The listeners of one event type (src/jm_runner.c), kept in a list of    *)
(* typed values (src/jm_msg_elist.h): they are called in the order of      *)
(* their registration, and register and unregister each other and          *)
(* themselves while they are called.                                       *)
(***************************************************************************)
EXTENDS Naturals, SequencesExt

CONSTANTS Listeners   \* the functions that listen

VARIABLES
  list,      \* jm_elist_t: the registered listeners, oldest first
  rest,      \* jm_elist_iterator_t: what the walk has still to call
  running,   \* is a listener being called?
  current,   \* the listener being called, or the last one called
  called,    \* history: the listeners called by this walk
  twice,     \* history: the listeners it called again
  steady,    \* history: the listeners registered throughout this walk
  wanted,    \* history: who registered and did not unregister
  misplaced  \* history: has the removal of one listener removed another?

walk == <<running, current, called, twice>>
listenVars == <<list, rest, walk, steady, wanted, misplaced>>

ListenInit ==
  /\ list = <<>> /\ rest = <<>> /\ running = FALSE
  /\ current \in Listeners
  /\ called = {} /\ twice = {} /\ steady = {}
  /\ wanted = {} /\ misplaced = FALSE
-----------------------------------------------------------------------------
\* Fault: the list is not searched before a listener is added.
RegTwice(l) ==
  /\ list' = Append(list, l)
  /\ rest' = IF rest = <<>> THEN rest ELSE Append(rest, l)
  /\ wanted' = wanted \cup {l}
  /\ UNCHANGED <<walk, steady, misplaced>>

\* _jm_regEventListener: once, at the tail.  A walk that has an item left
\* reaches it, one that has none does not.
Reg(l) ==
  /\ IF l \in ToSet(list)
     THEN UNCHANGED <<list, rest>>
     ELSE /\ list' = Append(list, l)
          /\ rest' = IF rest = <<>> THEN rest ELSE Append(rest, l)
  /\ wanted' = wanted \cup {l}
  /\ UNCHANGED <<walk, steady, misplaced>>

\* jm_elist_remove finds the item before the one to remove, and takes that
\* item, when it is the first of the list, for the one to remove.
Removed(l) == IF Len(list) > 1 /\ l = list[2] THEN list[1] ELSE l

\* jm_elist_remove: the item is unlinked, for a walk that comes to it too.
Unlink(gone) ==
  /\ list' = RemoveFirst(list, gone)
  /\ rest' = RemoveFirst(rest, gone)

\* _jm_unregEventListener.  A listener does not make it remove the item that
\* the walk calls next: the walk would go on from a freed item.
Unreg(l) ==
  LET gone == Removed(l) IN
  /\ l \in ToSet(list)
  /\ rest # <<>> => Head(rest) # gone
  /\ Unlink(gone)
  /\ steady' = steady \ {l, gone}
  /\ wanted' = wanted \ {l}
  /\ misplaced' = (misplaced \/ gone # l)
  /\ UNCHANGED walk

\* _jm_invokeEventListener: the walk takes the next item before the call.
Invoke ==
  /\ ~running /\ list # <<>>
  /\ running' = TRUE
  /\ current' = Head(list) /\ rest' = Tail(list)
  /\ called' = {Head(list)} /\ twice' = {}
  /\ steady' = ToSet(list)
  /\ UNCHANGED <<list, wanted, misplaced>>

CallNext(items) ==
  /\ current' = Head(items) /\ rest' = Tail(items)
  /\ called' = called \cup {Head(items)}
  /\ twice' = twice \cup (called \cap {Head(items)})

\* Fault: the walk ends when a listener has unregistered itself.
ListenerReturnsStops ==
  /\ running
  /\ IF rest = <<>> \/ current \notin ToSet(list)
     THEN running' = FALSE /\ UNCHANGED <<current, rest, called, twice>>
     ELSE CallNext(rest) /\ UNCHANGED running
  /\ UNCHANGED <<list, steady, wanted, misplaced>>

\* The listener returns and the next one is called, or the walk ends.
ListenerReturns ==
  /\ running
  /\ IF rest = <<>>
     THEN running' = FALSE /\ UNCHANGED <<current, rest, called, twice>>
     ELSE CallNext(rest) /\ UNCHANGED running
  /\ UNCHANGED <<list, steady, wanted, misplaced>>

ListenNext ==
  \/ \E l \in Listeners : Reg(l) \/ Unreg(l)
  \/ Invoke \/ ListenerReturns

ListenSpec == ListenInit /\ [][ListenNext]_listenVars
-----------------------------------------------------------------------------
(* A walk calls every listener that was registered all the while, once,    *)
(* whoever registers and unregisters meanwhile (_jm_invokeEventListener).  *)
SteadyCalledOnce ==
  [][running /\ ~running' => steady \subseteq called \ twice]_listenVars

(* Until a removal goes wrong, the listeners are those that registered and *)
(* did not unregister, each once.                                          *)
ListedAreWanted ==
  /\ IsInjective(list)
  /\ ~misplaced => ToSet(list) = wanted
=============================================================================
