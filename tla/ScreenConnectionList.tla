------------------------ MODULE ScreenConnectionList ------------------------
(***************************************************************************)
(* The connection list on the screen (UI_Curses/Screens) over the          *)
(* ConnectionList that the client or the collector changes and the         *)
(* resolver completes.  Everything runs in the main thread: a handler of   *)
(* data makes any number of changes and then draws once, keys, resizes and *)
(* answers of the resolver come between such handlers.                     *)
(***************************************************************************)
EXTENDS ConnectionList

CONSTANTS
    MaxRows,        \* bound: rows of the window
    Sizes,          \* the numbers of rows the window may have
    MaxTraffic,     \* bound: traffic counters
    MaxChanges,     \* bound: changes made by one handler
    MaxSwitchedOff, \* bound: how many of cursor and hostnames are switched off at a time
    Modes           \* pairs of a sort mode and whether it is ascending

ASSUME ScreenAssumption ==
    /\ MaxRows \in Nat /\ Sizes \subseteq 0..MaxRows /\ MaxTraffic \in Nat /\ MaxChanges \in Nat
    /\ MaxSwitchedOff \in 0..2
    /\ Modes \subseteq SortModes \X BOOLEAN

VARIABLES
    storage,        \* the keys of ConnectionStorage's connection map
    traffic,        \* traffic of the connections
    name,           \* what addresses and ports were resolved to; 0 is the empty string
    connList,       \* the ConnectionList
    rows,           \* the rows of the window as they are drawn
    currentSize,    \* m_currentSize
    showCursor,     \* m_showCursor
    showHostname,   \* m_showHostname
    header,         \* the count of connections and the scroll offset, as they are drawn
    dialog,         \* m_dialogDetails: m_content and the fields it shows
    changes         \* made by the handler that is running and has not drawn yet

vars == <<storage, traffic, name, connList, rows, currentSize, showCursor, showHostname, header,
          dialog, changes>>

Addresses == {Src[c] : c \in Conns} \cup {Dst[c] : c \in Conns}

Ports == {Port[c] : c \in Conns}

data == [storage |-> storage, traffic |-> traffic, name |-> name]

\* The columns of a row (ASN and organization are like the country), and the flag of each.
Columns == Fields \cup {"SRC_COUNTRY", "DST_COUNTRY"}

flagOf(column) ==
    CASE column = "SRC_COUNTRY" -> "SRC_ADDRESS"
      [] column = "DST_COUNTRY" -> "DST_ADDRESS"
      [] column \in Fields      -> column

\* The hostname or the numeric address (the same choice for ports, F6, is left out), ...
addressText(d, h, a) == IF h THEN d.name[a] ELSE 0

portText(d, c) == d.name[Port[c]]

\* ... country, ASN and organization, which are shown without a choice, ...
geoText(d, a) == d.name[a]

\* ... and the traffic.
trafficText(d, c) == d.traffic[c]

\* What a row shows of a connection, h saying whether with hostnames.
columnText(d, h, c) ==
    [f \in Columns |-> CASE f = "ROW"         -> c
                         [] f = "SRC_ADDRESS" -> addressText(d, h, Src[c])
                         [] f = "DST_ADDRESS" -> addressText(d, h, Dst[c])
                         [] f = "DST_PORT"    -> portText(d, c)
                         [] f = "SRC_COUNTRY" -> geoText(d, Src[c])
                         [] f = "DST_COUNTRY" -> geoText(d, Dst[c])
                         [] f = "TRAFFIC"     -> trafficText(d, c)]

\* What the dialog shows: names beside the numbers, whatever F5 chose.
detailText(d, c) ==
    [f \in Fields |-> CASE f = "ROW"         -> c
                        [] f = "SRC_ADDRESS" -> d.name[Src[c]]
                        [] f = "DST_ADDRESS" -> d.name[Dst[c]]
                        [] f = "DST_PORT"    -> d.name[Port[c]]
                        [] f = "TRAFFIC"     -> d.traffic[c]]

Blank == [text |-> [f \in Columns |-> None], cursor |-> "no"]

\* The dialog is cleared when it is closed, its members and its window.
Closed == [content |-> "NONE", text |-> [f \in Fields |-> IF f = "ROW" THEN None ELSE 0]]

\* The window is open and nothing is known yet (the constructor draws by handleResize).
Init ==
    /\ storage = {}
    /\ traffic = [c \in Conns |-> 0]
    /\ name = [n \in Addresses \cup Ports |-> 0]
    /\ connList \in {[initList EXCEPT !.targetSize = n, !.refresh = FALSE] : n \in Sizes}
    /\ rows = [r \in 1..MaxRows |-> Blank]
    /\ currentSize = 0
    /\ showCursor = TRUE
    /\ showHostname = TRUE
    /\ header = [connectionCount |-> 0, scrollOffset |-> 0]
    /\ dialog = Closed
    /\ changes = 0

-----------------------------------------------------------------------------
\* The columns of the stale fields are written, in the colours of the cursor or without them.
drawListEntry(d, h, old, item, isCursor) ==
    LET now == IF isCursor THEN "yes" ELSE "no"
    IN  [text   |-> [f \in Columns |-> IF flagOf(f) \in item.stale
                                       THEN columnText(d, h, item.conn)[f] ELSE old.text[f]],
         cursor |-> CASE item.stale = {} \/ old.cursor = now                  -> old.cursor
                      [] item.stale = Fields                                  -> now
                      [] item.stale \notin {{}, Fields} /\ old.cursor # now   -> "mixed"]

\* The counters of the status line are drawn if they differ from what was drawn last.
drawHeader(d, l) ==
    [connectionCount |-> Cardinality(d.storage), scrollOffset |-> l.scrollOffset]

\* DialogConnectionDetails::drawStatic: labels, numbers, and no packets yet.
drawStatic(c) == [content |-> "NORMAL", text |-> [Closed.text EXCEPT !["ROW"] = c]]

\* DialogConnectionDetails::drawUpdate
drawUpdate(old, new, flags) == [f \in Fields |-> IF f \in flags THEN new[f] ELSE old[f]]

(***************************************************************************)
(* DialogConnectionDetails::update: only what differs from the members is  *)
(* drawn.  What a removed connection was stays on display, unmodelled.     *)
(***************************************************************************)
updateDialog(d, box, c, updateFlags) ==
    CASE box.content = "NONE" -> box
      [] box.content # "NONE" /\ c = None -> [Closed EXCEPT !.content = "REMOVED"]
      [] box.content # "NONE" /\ c # None ->
             LET new == detailText(d, c)
                 flags == {f \in updateFlags : box.text[f] # new[f]}
             IN  [box EXCEPT !.text = drawUpdate(@, new, flags)]

(***************************************************************************)
(* updateList: draw what getNextUpdate returns, blank the rows that are no *)
(* longer used, the status line, refresh the dialog.                       *)
(***************************************************************************)
updateList(d, h, window, l, isCursorShown) ==
    /\ rows' = [r \in DOMAIN window |->
           CASE r <= getSize(l) /\ l.refresh ->
                    drawListEntry(d, h, window[r], l.list[l.scrollOffset + r],
                                  isCursorShown /\ r - 1 = l.cursorPos)
             [] r <= getSize(l) /\ ~l.refresh -> window[r]
             [] r > getSize(l) ->
                    IF r <= currentSize /\ getSize(l) < l.targetSize THEN Blank ELSE window[r]]
    /\ currentSize' = getSize(l)
    /\ header' = drawHeader(d, l)
    /\ dialog' = IF l.detailStale # {} THEN updateDialog(d, dialog, l.detail, l.detailStale)
                 ELSE dialog
    /\ connList' = resetConnectionDetailRefresh(getNextUpdate(l))

\* The keys that move draw only if something is to be drawn.
updateIfRequired(l) ==
    \/ l.refresh /\ updateList(data, showHostname, rows, l, showCursor)
    \/ ~l.refresh /\ connList' = l /\ UNCHANGED <<rows, currentSize, header, dialog>>

-----------------------------------------------------------------------------
(***************************************************************************)
(* Handlers of data: Client::onSessionData, or the collector's update.     *)
(***************************************************************************)
drawing == <<rows, currentSize, showCursor, showHostname, header, dialog>>

AddConnection(c, t) ==
    /\ changes < MaxChanges
    /\ c \notin storage
    /\ storage' = storage \cup {c}
    /\ traffic' = [traffic EXCEPT ![c] = t]
    /\ connList' = handleNewConnection(connList,
                       [data EXCEPT !.storage = storage', !.traffic = traffic'], c)
    /\ changes' = changes + 1
    /\ UNCHANGED <<name, drawing>>

UpdateConnection(c, t) ==
    /\ changes < MaxChanges
    /\ c \in storage /\ t # traffic[c]
    /\ traffic' = [traffic EXCEPT ![c] = t]
    /\ connList' \in update(connList, [data EXCEPT !.traffic = traffic'], c, {"TRAFFIC"})
    /\ changes' = changes + 1
    /\ UNCHANGED <<storage, name, drawing>>

RemoveConnection(c) ==
    /\ changes < MaxChanges
    /\ c \in storage
    /\ storage' = storage \ {c}
    /\ traffic' = [traffic EXCEPT ![c] = 0]
    /\ connList' \in handleRemovedConnection(connList,
                         [data EXCEPT !.storage = storage', !.traffic = traffic'], c)
    /\ changes' = changes + 1
    /\ UNCHANGED <<name, drawing>>

\* Data that is not an update replaces what there was.
ClearConnections ==
    /\ changes = 0
    /\ storage' = {}
    /\ traffic' = [c \in Conns |-> 0]
    /\ connList' = clear(connList)
    /\ changes' = changes + 1
    /\ UNCHANGED <<name, drawing>>

\* The end of the handler.
refreshConnectionList ==
    /\ changes > 0
    /\ changes' = 0
    /\ updateList(data, showHostname, rows, connList, showCursor)
    /\ UNCHANGED <<storage, traffic, name, showCursor, showHostname>>

-----------------------------------------------------------------------------
(***************************************************************************)
(* An answer of the resolver.  getAddress and getPort ask once for every   *)
(* address and port they add, and these are never removed: the answer may  *)
(* come long after the connection has gone.  No name as the answer changes *)
(* nothing and is left out.  An answer for what nobody asked about yet     *)
(* leads to a state in which the connection that asked was removed.        *)
(***************************************************************************)
ResolverCallback(n, DataUpdated(_, _, _)) ==
    /\ changes = 0
    /\ name[n] = 0
    /\ name' = [name EXCEPT ![n] = 1]
    /\ LET d == [data EXCEPT !.name = name']
       IN  \E l \in DataUpdated(connList, d, n) : updateList(d, showHostname, rows, l, showCursor)
    /\ UNCHANGED <<storage, traffic, showCursor, showHostname, changes>>

ResolverCallbackAddress(a) == ResolverCallback(a, addressDataUpdated)

ResolverCallbackPort(p) == ResolverCallback(p, portDataUpdated)

-----------------------------------------------------------------------------
(***************************************************************************)
(* Terminal and keyboard.  The dialog with the details takes the keys that *)
(* move and ENTER; the other keys reach the list below it.                 *)
(***************************************************************************)
unchangedData == UNCHANGED <<storage, traffic, name>>

\* UP, DOWN (1 row) and the page keys (one row less than the window has).
KeyMove(amount) ==
    /\ changes = 0 /\ dialog.content = "NONE"
    /\ connList.targetSize > 0
    /\ amount \in {-1, 1, 1 - connList.targetSize, connList.targetSize - 1}
    /\ \E l \in IF showCursor THEN moveCursor(connList, data, amount)
                              ELSE doScroll(connList, data, amount) : updateIfRequired(l)
    /\ unchangedData
    /\ UNCHANGED <<showCursor, showHostname, changes>>

\* ENTER opens the dialog on the connection at the cursor ...
OpenDetails ==
    /\ changes = 0 /\ dialog.content = "NONE"
    /\ showCursor
    /\ connList' = initConnectionDetail(connList)
    /\ dialog' = IF connList'.detail = None THEN dialog
                 ELSE updateDialog(data, drawStatic(connList'.detail), connList'.detail, Fields)
    /\ unchangedData
    /\ UNCHANGED <<rows, currentSize, showCursor, showHostname, header, changes>>

\* ... and closes it; the list goes on to follow the connection.
CloseDetails ==
    /\ changes = 0 /\ dialog.content # "NONE"
    /\ dialog' = Closed
    /\ unchangedData
    /\ UNCHANGED <<connList, rows, currentSize, showCursor, showHostname, header, changes>>

switchedOff(cursor, hostname) == Cardinality({s \in {<<"F4", cursor>>, <<"F5", hostname>>} : ~s[2]})

\* F4
ToggleCursor ==
    /\ changes = 0
    /\ showCursor' = ~showCursor
    /\ switchedOff(showCursor', showHostname) <= MaxSwitchedOff
    /\ updateList(data, showHostname, rows, invalidateCursor(connList), showCursor')
    /\ unchangedData
    /\ UNCHANGED <<showHostname, changes>>

\* F5
ToggleHostname ==
    /\ changes = 0
    /\ showHostname' = ~showHostname
    /\ switchedOff(showCursor, showHostname') <= MaxSwitchedOff
    /\ updateList(data, showHostname', rows, invalidateAllVisible(connList), showCursor)
    /\ unchangedData
    /\ UNCHANGED <<showCursor, changes>>

\* The dialog for the sort mode (F3) is closed with ENTER.
updateSortMode(mode, ascending) ==
    /\ changes = 0
    /\ <<mode, ascending>> # <<connList.sortMode, connList.ascending>>
    /\ \E l \in setSortMode(connList, data, mode, ascending) :
           updateList(data, showHostname, rows, l, showCursor)
    /\ unchangedData
    /\ UNCHANGED <<showCursor, showHostname, changes>>

\* The terminal has a new size: the window is erased and drawn again.
handleResize(size) ==
    /\ changes = 0
    /\ size # connList.targetSize
    /\ \E l \in setTargetSize(connList, data, size) :
           updateList(data, showHostname, [r \in DOMAIN rows |-> Blank], invalidateAllVisible(l), showCursor)
    /\ unchangedData
    /\ UNCHANGED <<showCursor, showHostname, changes>>

Next ==
    \/ \E c \in Conns, t \in 0..MaxTraffic : AddConnection(c, t) \/ UpdateConnection(c, t)
    \/ \E c \in Conns : RemoveConnection(c)
    \/ ClearConnections
    \/ refreshConnectionList
    \/ \E a \in Addresses : ResolverCallbackAddress(a)
    \/ \E p \in Ports : ResolverCallbackPort(p)
    \/ \E amount \in -MaxRows..MaxRows : KeyMove(amount)
    \/ OpenDetails
    \/ CloseDetails
    \/ ToggleCursor
    \/ ToggleHostname
    \/ \E m \in Modes : updateSortMode(m[1], m[2])
    \/ \E size \in Sizes : handleResize(size)

Spec == Init /\ [][Next]_vars

-----------------------------------------------------------------------------
(***************************************************************************)
(* Properties.                                                             *)
(***************************************************************************)
InList == {connList.list[i].conn : i \in DOMAIN connList.list}

(***************************************************************************)
(* What is on the screen is what is stored: every row in use shows the     *)
(* current data of the connection at its position, the cursor is drawn on  *)
(* the cursor's row and nowhere else, the rows below are blank, and the    *)
(* status line counts what is stored and scrolled over.  Rows are redrawn  *)
(* one by one and in part (getNextUpdate), so every operation must mark    *)
(* exactly the rows it moves.                                              *)
(***************************************************************************)
ScreenIsCurrent ==
    changes = 0 =>
        /\ header = [connectionCount |-> Cardinality(storage), scrollOffset |-> connList.scrollOffset]
        /\ \A r \in 1..MaxRows :
            rows[r] = IF r > getSize(connList) THEN Blank
                      ELSE [text   |-> columnText(data, showHostname,
                                                  connList.list[connList.scrollOffset + r].conn),
                            cursor |-> IF showCursor /\ r - 1 = connList.cursorPos THEN "yes" ELSE "no"]

(***************************************************************************)
(* The pointers the list and the dialog hold are pointers to connections   *)
(* that are stored, and no connection has two rows.                        *)
(***************************************************************************)
NoDanglingPointer ==
    /\ InList \subseteq storage
    /\ Cardinality(InList) = Len(connList.list)
    /\ connList.detail \in storage \cup {None}

(***************************************************************************)
(* The list is sorted, whatever the order of updates and answers: the      *)
(* binary search of insertItem and the test against the last item depend   *)
(* on it.                                                                  *)
(***************************************************************************)
ListIsSorted ==
    \A i \in 1..(Len(connList.list) - 1) :
        ~compareFunc(connList, data, connList.list[i + 1].conn, connList.list[i].conn)

(***************************************************************************)
(* The list reaches to the end of the window if there are connections to   *)
(* fill it with, and not further, and the cursor is on a row in use:       *)
(* invalidateCursor and initConnectionDetail dereference the item at the   *)
(* cursor unchecked.                                                       *)
(***************************************************************************)
WindowFits ==
    /\ connList.targetSize > 0 =>
           Len(connList.list) = Min({Cardinality(storage), connList.scrollOffset + connList.targetSize})
    /\ connList.cursorPos <= getCursorMaxPos(connList)

(***************************************************************************)
(* The dialog shows the current data of its connection, or says that the   *)
(* connection was removed.                                                 *)
(***************************************************************************)
DetailsAreCurrent ==
    changes = 0 /\ dialog.content # "NONE" =>
        CASE dialog.content = "NORMAL"  -> /\ connList.detail # None
                                           /\ dialog.text = detailText(data, connList.detail)
          [] dialog.content = "REMOVED" -> connList.detail = None

(***************************************************************************)
(* A key moves the cursor by so many connections, through the window and   *)
(* by scrolling it, until the first or the last one (moveCursor, for any   *)
(* amount: pages of longer windows included).                              *)
(***************************************************************************)
KeysMoveTheCursor ==
    changes = 0 /\ getSize(connList) > 0 =>
        \A amount \in -Cardinality(Conns)..Cardinality(Conns) :
            \A l \in moveCursor(connList, data, amount) :
                l.scrollOffset + l.cursorPos =
                    Max({0, Min({Cardinality(storage) - 1,
                                 connList.scrollOffset + connList.cursorPos + amount})})

=============================================================================
