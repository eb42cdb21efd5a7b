--------------------------- MODULE ConnectionList ---------------------------
(***************************************************************************)
(* ConnectionList (ConnectionList.hpp, .cpp): the sorted list of the best  *)
(* connections, from the first up to the last row of the window, over a    *)
(* storage that changes below it.                                          *)
(*                                                                         *)
(* l is the state of the object, d the data it refers to:                  *)
(*   l.list            m_list: items [conn, stale], stale being the set of *)
(*                     fields to draw again (updateFlags; {} if            *)
(*                     isRefreshRequired is false)                         *)
(*   l.targetSize, l.scrollOffset, l.cursorPos, l.refresh, l.detail,       *)
(*   l.detailStale, l.sortMode, l.ascending                                *)
(*   d.storage, d.traffic, d.name    connections, their traffic, and what  *)
(*                     addresses and ports were resolved to                *)
(*                                                                         *)
(* Positions in m_list count from 0 in the code and from 1 here.           *)
(*                                                                         *)
(* The order of a hash map, and of equal items after std::sort, is not     *)
(* determined.  Operations that depend on it yield the set of results.     *)
(***************************************************************************)
EXTENDS Integers, FiniteSets, Sequences, SequencesExt

CONSTANTS
    Conns,      \* connections
    Src,        \* source address of each connection
    Dst,        \* destination address of each connection
    Port,       \* destination port of each connection
    Rank        \* position of each connection in the order of what never changes

None == -1

ASSUME ConnsAssumption ==
    /\ IsFiniteSet(Conns) /\ None \notin Conns /\ Rank \in [Conns -> Nat]
    /\ \A b, c \in Conns : Port[b] \notin {Src[c], Dst[c]}

\* "ROW" is everything that only a flag value of -1 makes the UI draw.
Fields == {"SRC_ADDRESS", "DST_ADDRESS", "DST_PORT", "TRAFFIC", "ROW"}

SortModes == {"NONE", "DST_ADDRESS", "DST_HOSTNAME", "DST_SERVICE", "TRAFFIC"}

initList ==
    [list |-> <<>>, targetSize |-> 0, scrollOffset |-> 0, cursorPos |-> 0, detail |-> None,
     detailStale |-> {}, sortMode |-> "NONE", ascending |-> FALSE, refresh |-> TRUE]

-----------------------------------------------------------------------------
\* The compare functions: by a key that never changes, ...
addressKey(c) == Rank[c]

\* ... by what an address was resolved to (hostname, country, ASN), ...
hostnameKey(d, c) == d.name[Dst[c]]

\* ... by what a port was resolved to, ...
serviceKey(d, c) == d.name[Port[c]]

\* ... by the state and the traffic of the connection itself.
trafficKey(d, c) == d.traffic[c]

updateCompareFunc(l, d, c) ==
    CASE l.sortMode = "NONE"         -> 0
      [] l.sortMode = "DST_ADDRESS"  -> addressKey(c)
      [] l.sortMode = "DST_HOSTNAME" -> hostnameKey(d, c)
      [] l.sortMode = "DST_SERVICE"  -> serviceKey(d, c)
      [] l.sortMode = "TRAFFIC"      -> trafficKey(d, c)

compareFunc(l, d, a, b) ==
    LET x == updateCompareFunc(l, d, a)
        y == updateCompareFunc(l, d, b)
    IN  IF l.ascending THEN x < y ELSE y < x

-----------------------------------------------------------------------------
Item(c) == [conn |-> c, stale |-> Fields]

getSize(l) == IF Len(l.list) > l.scrollOffset THEN Len(l.list) - l.scrollOffset ELSE 0

getCursorMaxPos(l) == IF getSize(l) > 0 THEN getSize(l) - 1 ELSE 0

getListBeginIndex(l) == IF Len(l.list) > l.scrollOffset THEN l.scrollOffset ELSE 0

getListBeginIt(l) == IF Len(l.list) > l.scrollOffset THEN l.scrollOffset ELSE Len(l.list)

containsItem(l, c) == \E i \in DOMAIN l.list : l.list[i].conn = c

back(l) == Last(l.list).conn

pop_back(l, n) == [l EXCEPT !.list = SubSeq(@, 1, Len(@) - n)]

push_back(l, c) == [l EXCEPT !.list = Append(@, Item(c)), !.refresh = TRUE]

\* The position of c in m_list, 0 if it is not there.
find(l, c) == SelectInSeq(l.list, LAMBDA item : item.conn = c)

\* The positions from getListBeginIt() on.
Visible(l) == {i \in DOMAIN l.list : i > getListBeginIt(l)}

\* Marks the fields of the items at the given positions.
Mark(l, fields, which) ==
    [l EXCEPT !.list = [i \in DOMAIN l.list |->
        IF i \in which THEN [l.list[i] EXCEPT !.stale = @ \cup fields] ELSE l.list[i]]]

invalidateAllVisible(l) == [Mark(l, Fields, Visible(l)) EXCEPT !.refresh = TRUE]

invalidateCursor(l) ==
    IF getSize(l) = 0 THEN l
    ELSE [Mark(l, Fields, {l.scrollOffset + l.cursorPos + 1}) EXCEPT !.refresh = TRUE]

\* The cursor stays on a row that is there.
clampCursor(l) ==
    IF l.cursorPos > getCursorMaxPos(l)
    THEN invalidateCursor([l EXCEPT !.cursorPos = getCursorMaxPos(l)])
    ELSE l

\* std::upper_bound in a sorted list: behind the items that do not come after c.
insertItem(l, d, c) ==
    LET index    == 1 + Cardinality({i \in DOMAIN l.list : ~compareFunc(l, d, c, l.list[i].conn)})
        inserted == [l EXCEPT !.list = InsertAt(@, index, Item(c))]
        cut      == IF getSize(inserted) > l.targetSize THEN pop_back(inserted, 1) ELSE inserted
    IN  [Mark(cut, Fields, {i \in DOMAIN cut.list : i >= index /\ i > getListBeginIndex(cut)})
         EXCEPT !.refresh = TRUE]

sort(l, d) ==
    LET isSorted(p) == \A i \in 1..(Len(p) - 1) :
                           ~compareFunc(l, d, l.list[p[i + 1]].conn, l.list[p[i]].conn)
    IN  {invalidateAllVisible([l EXCEPT !.list = [i \in DOMAIN l.list |-> l.list[p[i]]]]) :
             p \in {q \in SetToSeqs(DOMAIN l.list) : isSorted(q)}}

\* Variant: the bound on the size counts the items scrolled out of the window.
offerForgettingScroll(l, d, c, isGrowing) ==
    CASE containsItem(l, c)                                    -> l
      [] ~containsItem(l, c) /\ compareFunc(l, d, c, back(l))  -> insertItem(l, d, c)
      [] ~containsItem(l, c) /\ ~compareFunc(l, d, c, back(l)) ->
             IF isGrowing /\ Len(l.list) < l.targetSize THEN push_back(l, c) ELSE l

\* The body of the loops over the storage, of which only that of fill appends.
offer(l, d, c, isGrowing) ==
    CASE containsItem(l, c)                                    -> l
      [] ~containsItem(l, c) /\ compareFunc(l, d, c, back(l))  -> insertItem(l, d, c)
      [] ~containsItem(l, c) /\ ~compareFunc(l, d, c, back(l)) ->
             IF isGrowing /\ getSize(l) < l.targetSize THEN push_back(l, c) ELSE l

\* The loop over the storage, in its order, of which those in the set offered take part.
offerAll(l, d, order, offered, isGrowing) ==
    LET loop[n \in 0..Len(order)] ==
            IF n = 0 THEN l
            ELSE IF order[n] \in offered THEN offer(loop[n - 1], d, order[n], isGrowing)
            ELSE loop[n - 1]
    IN  loop[Len(order)]

fill(l, d) ==
    LET start(order) == IF l.list = <<>> THEN push_back(l, Head(order)) ELSE l
    IN  IF l.targetSize <= getSize(l) \/ Cardinality(d.storage) <= Len(l.list) THEN {l}
        ELSE {[offerAll(start(order), d, order, d.storage, TRUE) EXCEPT !.refresh = TRUE] :
                  order \in SetToSeqs(d.storage)}

-----------------------------------------------------------------------------
(***************************************************************************)
(* What the collector or the client calls, after the storage has changed.  *)
(***************************************************************************)

handleNewConnection(l, d, c) ==
    CASE l.list # <<>> /\ compareFunc(l, d, c, back(l)) -> insertItem(l, d, c)
      [] l.list = <<>> \/ ~compareFunc(l, d, c, back(l)) ->
             IF getSize(l) < l.targetSize THEN push_back(l, c) ELSE l

\* m_list and m_connectionDetail without c.
erase(l, c) ==
    [l EXCEPT !.detail = IF @ = c THEN None ELSE @,
              !.detailStale = IF l.detail = c THEN Fields ELSE @,
              !.list = IF containsItem(l, c) THEN RemoveAt(@, find(l, c)) ELSE @]

\* Variant: the rows that move up are not drawn again.
removeWithoutMarking(l, d, c) ==
    {[clampCursor(m) EXCEPT !.refresh = TRUE] : m \in fill(erase(l, c), d)}

\* Variant: the dialog keeps its pointer to the removed connection.
removeKeepingDetail(l, d, c) ==
    LET i      == find(l, c)
        gone   == [erase(l, c) EXCEPT !.detail = l.detail]
        marked == Mark(gone, Fields, {j \in Visible(gone) : i > 0 /\ j >= i})
    IN  {[clampCursor(m) EXCEPT !.refresh = TRUE] : m \in fill(marked, d)}

handleRemovedConnection(l, d, c) ==
    LET i      == find(l, c)
        gone   == erase(l, c)
        marked == Mark(gone, Fields, {j \in Visible(gone) : i > 0 /\ j >= i})
    IN  {[clampCursor(m) EXCEPT !.refresh = TRUE] : m \in fill(marked, d)}

\* Variant: the dialog is not told that its connection is gone.
clearWithoutTelling(l) ==
    [l EXCEPT !.list = <<>>, !.cursorPos = 0, !.detail = None, !.refresh = TRUE]

clear(l) ==
    [l EXCEPT !.list = <<>>, !.cursorPos = 0, !.detail = None, !.detailStale = Fields, !.refresh = TRUE]

\* Variant: an item is compared with the one before it only.
updateComparingOneSide(l, d, c, fields) ==
    LET i     == find(l, c)
        shown == i > getListBeginIndex(l)
        told  == [l EXCEPT !.detailStale = IF l.detail = c THEN fields ELSE @]
        drawn == [Mark(told, fields, IF shown THEN {i} ELSE {}) EXCEPT !.refresh = @ \/ shown]
    IN  CASE l.list = <<>> -> {told}
          [] i > 0 ->
                 IF i > 1 /\ compareFunc(l, d, c, l.list[i - 1].conn) THEN sort(drawn, d) ELSE {drawn}
          [] l.list # <<>> /\ i = 0 ->
                 {IF compareFunc(l, d, c, back(l)) THEN insertItem(told, d, c) ELSE told}

(***************************************************************************)
(* The data of c has changed in place; the rest of the list is in order.   *)
(***************************************************************************)
update(l, d, c, fields) ==
    LET i     == find(l, c)
        shown == i > getListBeginIndex(l)
        told  == [l EXCEPT !.detailStale = IF l.detail = c THEN fields ELSE @]
        drawn == [Mark(told, fields, IF shown THEN {i} ELSE {}) EXCEPT !.refresh = @ \/ shown]
        isLess(a, b)   == compareFunc(l, d, l.list[a].conn, l.list[b].conn)
        isLast         == i = Len(l.list)
        isSortRequired == (i > 1 /\ isLess(i, i - 1)) \/ (~isLast /\ isLess(i + 1, i))
        isFillRequired == IF isLast THEN ~isSortRequired ELSE isLess(Len(l.list), i)
        sorted         == IF isSortRequired THEN sort(drawn, d) ELSE {drawn}
    IN  CASE l.list = <<>> -> {told}
          [] i > 0         -> IF isFillRequired THEN UNION {fill(m, d) : m \in sorted} ELSE sorted
          [] l.list # <<>> /\ i = 0 ->
                 {IF compareFunc(l, d, c, back(l)) THEN insertItem(told, d, c) ELSE told}

-----------------------------------------------------------------------------
(***************************************************************************)
(* The part addressDataUpdated and portDataUpdated have in common: Has[c]  *)
(* is what changed in connection c, as a set of fields.                    *)
(***************************************************************************)
dataUpdated(l, d, Has, mayAffectOrder) ==
    LET told     == [l EXCEPT !.detailStale = @ \cup (IF l.detail = None THEN {} ELSE Has[l.detail])]
        changed  == [i \in DOMAIN l.list |-> Has[l.list[i].conn]]
        contains == \E i \in DOMAIN changed : changed[i] # {}
        visible  == \E i \in Visible(l) : changed[i] # {}
        marked   == [told EXCEPT !.list = [i \in DOMAIN l.list |->
                        IF i \in Visible(l) THEN [l.list[i] EXCEPT !.stale = @ \cup changed[i]] ELSE l.list[i]],
                                 !.refresh = @ \/ visible]
        offered  == {c \in Conns : Has[c] # {}}
    IN  CASE l.list = <<>>                      -> {told}
          [] l.list # <<>> /\ ~mayAffectOrder   -> {marked}
          [] l.list # <<>> /\ mayAffectOrder    ->
                 UNION {{offerAll(m, d, order, offered, FALSE) : order \in SetToSeqs(d.storage)} :
                            m \in IF contains THEN sort(marked, d) ELSE {marked}}

\* The fields of c that address a, or port p, is shown in.
addressFields(a) ==
    [c \in Conns |-> {f \in {"SRC_ADDRESS", "DST_ADDRESS"} :
                          a = IF f = "SRC_ADDRESS" THEN Src[c] ELSE Dst[c]}]

portFields(p) == [c \in Conns |-> IF p = Port[c] THEN {"DST_PORT"} ELSE {}]

addressDataUpdated(l, d, a) == dataUpdated(l, d, addressFields(a), l.sortMode = "DST_HOSTNAME")

portDataUpdated(l, d, p) == dataUpdated(l, d, portFields(p), l.sortMode = "DST_SERVICE")

-----------------------------------------------------------------------------
(***************************************************************************)
(* What the UI calls.                                                      *)
(***************************************************************************)

doScroll(l, d, amount) ==
    LET up   == Min({-amount, l.scrollOffset})
        down == Min({amount, Cardinality(d.storage) - Len(l.list)})
        upTo == [l EXCEPT !.scrollOffset = @ - up]
    IN  CASE amount < 0 /\ up > 0 ->
                 {invalidateAllVisible(pop_back(upTo, Max({0, getSize(upTo) - l.targetSize})))}
          [] amount > 0 /\ down > 0 ->
                 fill(invalidateAllVisible([l EXCEPT !.scrollOffset = @ + down]), d)
          [] amount = 0 \/ (amount < 0 /\ up = 0) \/ (amount > 0 /\ down <= 0) -> {l}

\* Variant: the cursor is not put to the edge of the window before it scrolls.
moveCursorOrScroll(l, d, amount) ==
    LET maxPos == getCursorMaxPos(l)
        toEdge == IF amount < 0 THEN l.cursorPos ELSE maxPos - l.cursorPos
        isMore == IF amount < 0 THEN l.scrollOffset > 0 ELSE Cardinality(d.storage) > Len(l.list)
        steps  == Max({amount, -amount})
        sign   == IF amount < 0 THEN -1 ELSE 1
        moved  == [invalidateCursor(l) EXCEPT !.cursorPos = @ + sign * Min({steps, toEdge})]
    IN  CASE steps > toEdge /\ isMore ->
                 doScroll(l, d, sign * (steps - toEdge))
          [] ~(steps > toEdge /\ isMore) ->
                 {IF toEdge > 0 /\ steps > 0 THEN invalidateCursor(moved) ELSE l}

moveCursor(l, d, amount) ==
    LET maxPos == getCursorMaxPos(l)
        toEdge == IF amount < 0 THEN l.cursorPos ELSE maxPos - l.cursorPos
        isMore == IF amount < 0 THEN l.scrollOffset > 0 ELSE Cardinality(d.storage) > Len(l.list)
        steps  == Max({amount, -amount})
        sign   == IF amount < 0 THEN -1 ELSE 1
        edge   == IF amount < 0 THEN 0 ELSE maxPos
        moved  == [invalidateCursor(l) EXCEPT !.cursorPos = @ + sign * Min({steps, toEdge})]
    IN  CASE steps > toEdge /\ isMore ->
                 doScroll([l EXCEPT !.cursorPos = edge], d, sign * (steps - toEdge))
          [] ~(steps > toEdge /\ isMore) ->
                 {IF toEdge > 0 /\ steps > 0 THEN invalidateCursor(moved) ELSE l}

initConnectionDetail(l) ==
    [l EXCEPT !.detail = IF getSize(l) = 0 THEN None
                         ELSE l.list[l.scrollOffset + l.cursorPos + 1].conn,
              !.detailStale = Fields]

resetConnectionDetailRefresh(l) == [l EXCEPT !.detailStale = {}]

setTargetSize(l, d, size) ==
    LET resized == [l EXCEPT !.targetSize = size]
        current == getSize(l)
        fitted  == CASE current > size -> {[pop_back(resized, current - size) EXCEPT !.refresh = TRUE]}
                     [] current < size -> fill(resized, d)
                     [] current = size -> {resized}
    IN  IF l.targetSize = size THEN {l} ELSE {clampCursor(m) : m \in fitted}

setSortMode(l, d, sortMode, ascending) ==
    LET empty == [l EXCEPT !.sortMode = sortMode, !.ascending = ascending, !.list = <<>>]
    IN  IF l.sortMode = sortMode /\ l.ascending = ascending THEN {l}
        ELSE {[m EXCEPT !.refresh = TRUE] : m \in fill(empty, d)}

\* getNextUpdate until it returns nothing: the visible items have been handed out.
getNextUpdate(l) ==
    IF ~l.refresh THEN l
    ELSE [l EXCEPT !.list = [i \in DOMAIN l.list |->
                        IF i \in Visible(l) THEN [l.list[i] EXCEPT !.stale = {}] ELSE l.list[i]],
                   !.refresh = FALSE]
=============================================================================
