----------------------------- MODULE WindowsPages -----------------------------
(***************************************************************************)
(* The Win32 window of src/main_windows.c apart from its data: how it is   *)
(* created and destroyed and which GDI objects it owns, the theme          *)
(* (src/windows_theme.c), the About window's nested message loop, what     *)
(* painting leaves behind for the mouse handlers to hit, and the history   *)
(* graphs.  What the handlers make of samples and process snapshots is in  *)
(* WindowsShell.                                                           *)
(*                                                                         *)
(* Every handler runs on the UI thread; WM_PAINT comes when the queue is   *)
(* empty, so that other messages may be handled between an invalidation    *)
(* and the paint.  Heights are pixels, as in the code.  The studies keep   *)
(* apart parts that do not share state.                                    *)
(***************************************************************************)
EXTENDS Integers, Sequences, FiniteSets, SequencesExt

CONSTANTS
    Studies,          \* Of "life", "theme", "mouse", "hover", "graph".
    Machines,         \* Devices a sample may list: [disk, network, gpu].
    Sizes,            \* Client areas, <<width, height>>.
    Rows,             \* Vertical positions of the pointer.
    Columns,          \* Horizontal positions in the strip of tabs.
    Design,           \* InfiltratrDesignMetrics.
    MaxScroll,        \* Bound on performance_scroll_y.
    HistoryCapacity,  \* LSM_WINDOWS_HISTORY_CAPACITY.
    Readings,         \* Readings of a history, as percent.
    MaxSamples        \* Bound on the readings recorded.

PagesAssumption ==
    /\ Studies \subseteq {"life", "theme", "mouse", "hover", "graph"}
    /\ \A m \in Machines : {m.disk, m.network, m.gpu} \subseteq Nat
    /\ HistoryCapacity \in Nat \ {0} /\ MaxSamples \in Nat

VARIABLES
    study,
    app,      \* The process and its windows.
    gdi,      \* GDI objects: those the state points at, those that exist.
    theme,    \* The theme, the registry and the system's preference.
    ui,       \* Selection, rectangles of the last paint, pointer.
    hist      \* A history ring.

vars == <<study, app, gdi, theme, ui, hist>>

-----------------------------------------------------------------------------
(* The objects.  A font resource or a font has a name; the bitmaps of the   *)
(* back buffer alternate between two, and 0 is the bitmap a memory DC is    *)
(* made with.                                                               *)
FontResources == {"ui regular", "ui bold", "brand", "caption", "heading", "metric"}
Fonts == {"body_font", "body_bold_font", "caption_font", "rail_value_font",
          "title_font", "heading_font", "metric_font"}

NoObjects == [held |-> {}, live |-> {}, bad |-> FALSE, dc |-> FALSE,
              chosen |-> 0, font |-> "stock", bitmap |-> 0, bitmaps |-> {},
              previous |-> FALSE, size |-> <<0, 0>>]

(* DeleteObject on what the state points at: an object selected into a DC   *)
(* is not deleted.                                                          *)
Release(g, names) ==
    [g EXCEPT !.bad = @ \/ ~(names \cap g.held \subseteq g.live),
              !.live = @ \ ((names \cap g.held) \ {g.font}),
              !.held = @ \ names]

remove_font_resources(g) == Release(g, FontResources)

(* destroy_state: safe to call again, since every pointer is cleared.       *)
destroy_state(g) ==
    LET fonts == Release(g, Fonts)
        buffer == [fonts EXCEPT
                      !.chosen = IF g.dc /\ g.previous THEN 0 ELSE @,
                      !.bitmaps = IF g.dc /\ g.previous THEN @ \ {g.bitmap} ELSE @,
                      !.bitmap = 0, !.dc = FALSE, !.previous = FALSE,
                      !.font = "stock", !.size = <<0, 0>>]
    IN remove_font_resources(buffer)

(* install_embedded_typography: all of the faces or none.                   *)
install_embedded_typography(g, found) ==
    LET installed == [g EXCEPT !.held = @ \cup found, !.live = @ \cup found]
    IN IF found = FontResources THEN installed ELSE remove_font_resources(installed)

(* create_fonts: a face the system substitutes counts as missing.           *)
create_fonts(g, exact) == [g EXCEPT !.held = @ \cup exact, !.live = @ \cup exact]

(* ensure_backbuffer: a new size takes a new bitmap, and the bitmap it      *)
(* displaces is deleted unless it is the one the DC was made with.          *)
ensure_backbuffer(g, size, made) ==
    LET new == IF g.bitmap = 1 THEN 2 ELSE 1
    IN IF g.dc /\ g.bitmap # 0 /\ g.size = size THEN g
       ELSE IF ~made THEN [g EXCEPT !.dc = TRUE]
       ELSE [g EXCEPT !.dc = TRUE, !.chosen = new, !.bitmap = new, !.size = size,
                      !.bitmaps = (@ \ {g.chosen}) \cup {new},
                      !.previous = TRUE]

-----------------------------------------------------------------------------
(* windows_theme.c.                                                         *)
Modes == {"system", "day", "night"}
infiltratr_theme_resolve(mode, dark) ==
    IF mode = "night" \/ (mode = "system" /\ dark) THEN "night" ELSE "day"

lsm_windows_theme_resolve(t) ==
    LET palette == infiltratr_theme_resolve(t.mode, t.dark)
    IN IF palette \in t.valid THEN [t EXCEPT !.palette = palette] ELSE t

Resolved(t) == infiltratr_theme_resolve(t.mode, t.dark) \in t.valid

lsm_windows_theme_load(t) ==
    lsm_windows_theme_resolve(
        [t EXCEPT !.mode = IF t.registry = "none" THEN "night" ELSE t.registry])

apply_process_list_theme(t) == [t EXCEPT !.list = t.palette]

(* The title bar goes by the mode and the system, not by the palette.       *)
apply_titlebar_theme(t) ==
    [t EXCEPT !.title = infiltratr_theme_resolve(t.mode, t.dark)]

Applied(t) == apply_titlebar_theme(apply_process_list_theme(t))

(* The check marks of the Theme menu.                                       *)
show_view_menu(t) == {m \in Modes : t.mode = m}

-----------------------------------------------------------------------------
(* Geometry.                                                                *)
ContentTop == 32 + Design.control + 56 + Design.control + 38 + Design.section
ContentBottom(h) == h - 30 - Design.padding
Stride == 68 + Design.compact

TabLabels == <<"performance", "processes", "services", "overview">>
TabWidth == 92

(* draw_page_tabs: a tab that passes the edge is cut, the rest are emptied. *)
Smaller(a, b) == IF a < b THEN a ELSE b
draw_page_tabs(w) ==
    LET edge == w - Design.padding
        left(k) == Smaller(Design.padding + (k - 1) * TabWidth, edge)
        right(k) == Smaller(Design.padding + k * TabWidth, edge)
    IN [k \in DOMAIN TabLabels |->
           [page |-> TabLabels[k], lo |-> left(k), hi |-> right(k)]]

(* The rail of draw_performance_page.                                       *)
Entries(m) ==
    LET of(type, n) == [k \in 1 .. n |-> <<type, k - 1>>]
        n(count) == IF m.ready THEN count ELSE 0
    IN <<<<"cpu", 0>>, <<"memory", 0>>>> \o of("disk", n(m.disk))
           \o of("network", n(m.network)) \o of("gpu", n(m.gpu))

Maximum(m, h) ==
    LET total == Len(Entries(m)) * Stride - Design.compact
        available == ContentBottom(h) - ContentTop - 16
    IN IF total > available THEN total - available ELSE 0

Clamped(scroll, m, h) ==
    IF scroll < 0 THEN 0 ELSE Smaller(scroll, Maximum(m, h))

(* IntersectRect with the rail; an empty rectangle is hit by no point.      *)
Within(lo, hi, h) ==
    [lo |-> IF lo < ContentTop THEN ContentTop ELSE lo,
     hi |-> Smaller(hi, ContentBottom(h))]

draw_performance_rail_item(entry, k, scroll, h) ==
    LET top == ContentTop + 8 - scroll + (k - 1) * Stride
        shown == Within(top, top + 68, h)
    IN [entry |-> entry, lo |-> shown.lo, hi |-> shown.hi]

RailItems(m, scroll, h) ==
    [k \in DOMAIN Entries(m) |->
        draw_performance_rail_item(Entries(m)[k], k, scroll, h)]

(* The nine cards of draw_overview_page, in rows of three.                  *)
Metrics == <<"cpu", "memory", "disk", "network", "gpu", "temperature",
             "cpu pressure", "memory pressure", "io pressure">>
draw_overview_page(h) ==
    LET top == ContentTop + 66
        bottom == ContentBottom(h) - 104 - Design.control
        height == (bottom - top - 2 * Design.control) \div 3
        row(k) == (k - 1) \div 3
    IN [k \in DOMAIN Metrics |->
           [metric |-> Metrics[k], column |-> (k - 1) % 3,
            lo |-> top + row(k) * (height + Design.control),
            hi |-> top + row(k) * (height + Design.control) + height]]

(* The parts of a page, from the top: header, scale, graph, composition,    *)
(* details, with the rows drawn in the last.                                *)
Part(name, lo, hi) == [name |-> name, lo |-> lo, hi |-> hi]
GraphEnd(top, wanted) == IF wanted < top + 120 THEN top + 120 ELSE wanted

draw_cpu_page(h) ==
    LET top == ContentTop
        end == GraphEnd(top + 94, ContentBottom(h) - 221)
    IN <<Part("header", top, top + 54), Part("scale", top + 61, top + 87),
         Part("graph", top + 94, end), Part("details", end + 7, ContentBottom(h)),
         Part("rows", end + 7 + 12, end + 7 + 12 + 5 * 36)>>

draw_memory_page(h) ==
    LET top == ContentTop
        end == GraphEnd(top + 79, ContentBottom(h) - 318)
    IN <<Part("header", top, top + 72), Part("graph", top + 79, end),
         Part("composition label", end + 7, end + 31),
         Part("composition", end + 31, end + 101),
         Part("details", end + 108, ContentBottom(h)),
         Part("rows", end + 118, end + 118 + 5 * 34)>>

(* draw_device_performance_page stops at the first row that does not fit.   *)
draw_device_performance_page(h, metrics) ==
    LET top == ContentTop + 74
        fits == {n \in 0 .. (metrics + 1) \div 2 :
                    n = 0 \/ top + 14 + n * 54 <= ContentBottom(h) - 8}
        rows == CHOOSE n \in fits : \A other \in fits : other <= n
    IN <<Part("header", ContentTop, ContentTop + 64),
         Part("details", top, ContentBottom(h)),
         Part("rows", top + 14, top + 14 + rows * 54)>>

Body(sel, h) ==
    CASE sel[1] = "cpu" -> draw_cpu_page(h)
      [] sel[1] = "memory" -> draw_memory_page(h)
      [] OTHER -> draw_device_performance_page(h, 9)

-----------------------------------------------------------------------------
(* The histories: append_history, history_value, and the line segments of   *)
(* draw_history_graph by the positions they join.                           *)
Unmeasured == -1

append_history(r, value) ==
    [r EXCEPT !.cells[r.position] = value,
              !.position = (@ + 1) % HistoryCapacity,
              !.count = IF @ < HistoryCapacity THEN @ + 1 ELSE @,
              !.told = Append(@, value)]

history_value(r, i) ==
    LET first == IF r.position >= r.count THEN r.position - r.count
                 ELSE HistoryCapacity - (r.count - r.position)
    IN r.cells[(first + i) % HistoryCapacity]

(* The pen moves to a reading after one that is missing, and draws to it    *)
(* otherwise.                                                               *)
Lines(count, measured) ==
    LET step(pen, i) ==
            IF i \notin measured THEN [pen EXCEPT !.down = FALSE]
            ELSE [down |-> TRUE, at |-> i,
                  lines |-> IF pen.down THEN pen.lines \cup {<<pen.at, i>>}
                            ELSE pen.lines]
    IN IF count < 2 THEN {}
       ELSE FoldLeft(step, [down |-> FALSE, at |-> 0, lines |-> {}],
                     [k \in 1 .. count |-> k - 1]).lines

draw_history_graph(r) ==
    Lines(r.count, {i \in 0 .. r.count - 1 : history_value(r, i) # Unmeasured})

(* The cards of Overview: a gap, or a metric the sample lacks, breaks the   *)
(* line.                                                                    *)
windows_overview_metric_value(sample) == [available |-> sample # Unmeasured]
draw_overview_sparkline(samples) ==
    Lines(Len(samples),
          {i \in 0 .. Len(samples) - 1 :
             windows_overview_metric_value(samples[i + 1]).available})

-----------------------------------------------------------------------------
(* The pointer.                                                             *)
None == <<"none", 0>>
NoClick == [fresh |-> FALSE, seen |-> None, did |-> None]
Area(kind, column, row) == [kind |-> kind, column |-> column, row |-> row]
draw_menu_strip == <<"file", "view", "help">>
Points == {Area("menu", k, 0) : k \in DOMAIN draw_menu_strip}
          \cup {Area("tab", x, 0) : x \in Columns}
          \cup {Area("content", c, y) : c \in 0 .. 2, y \in Rows}

Hits(rects, n) == {k \in DOMAIN rects : rects[k].lo <= n /\ n < rects[k].hi}
FirstOf(ks) == CHOOSE k \in ks : \A other \in ks : k <= other

(* What WM_MOUSEMOVE and WM_LBUTTONUP find at a point, by the rectangles    *)
(* of the last paint and the page active now.                               *)
HitTest(u, p) ==
    LET items == IF u.page # "performance" \/ p.column # 0 THEN {}
                 ELSE Hits(u.items, p.row)
        cards == IF u.page # "overview" THEN {}
                 ELSE {k \in Hits(u.cards, p.row) : u.cards[k].column = p.column}
    IN CASE p.kind = "menu" -> IF u.menus THEN <<"menu", p.column>> ELSE None
         [] p.kind = "tab" -> IF Hits(u.tabs, p.column) = {} THEN None
                              ELSE <<"tab", FirstOf(Hits(u.tabs, p.column))>>
         [] OTHER -> IF cards # {} THEN <<"card", FirstOf(cards)>>
                     ELSE IF items # {} THEN <<"item", FirstOf(items)>>
                     ELSE None

NoMonitor == [ready |-> FALSE, disk |-> 0, network |-> 0, gpu |-> 0]
Sample(m) == [ready |-> TRUE, disk |-> m.disk, network |-> m.network,
              gpu |-> m.gpu]
Exists(sel, m) == \E k \in DOMAIN Entries(m) : Entries(m)[k] = sel

validate_performance_selection(sel, m) ==
    IF sel[1] \in {"disk", "network", "gpu"} /\ sel[2] >= m[sel[1]]
    THEN <<"cpu", 0>> ELSE sel

(* set_performance_status names the selection.                              *)
set_performance_status(u) == [u EXCEPT !.status = <<"performance", u.sel>>]

(* refresh_active_page, for each sample the update may bring.               *)
Updates(u) ==
    IF ~u.tried THEN {NoMonitor} \cup {Sample(m) : m \in Machines}
    ELSE IF u.mon.ready THEN {u.mon} \cup {Sample(m) : m \in Machines}
    ELSE {u.mon}

Refreshed(u, m) ==
    LET got == [u EXCEPT !.mon = m, !.tried = TRUE, !.dirty = TRUE]
        kept == [got EXCEPT !.overtaken = FALSE,
                            !.sel = IF m.ready
                                    THEN validate_performance_selection(u.sel, m)
                                    ELSE @]
    IN CASE u.page = "performance" -> set_performance_status(kept)
         [] u.page = "services" -> got
         [] OTHER -> [got EXCEPT !.status = <<u.page, None>>]

refresh_active_page(u) == {Refreshed(u, m) : m \in Updates(u)}

update_process_visibility(u) == [u EXCEPT !.list = u.page = "processes"]

show_page(u, page) ==
    LET to == update_process_visibility([u EXCEPT !.page = page, !.dirty = TRUE])
    IN IF page = "services" THEN {[to EXCEPT !.status = <<page, None>>]}
       ELSE refresh_active_page(to)

(* navigate_overview_card: the entries a card may lead to; none when there  *)
(* is no sample, or no such device.                                         *)
Targets(metric, m) ==
    LET all(type) == {Entries(m)[k] : k \in {n \in DOMAIN Entries(m) :
                                                 Entries(m)[n][1] = type}}
    IN IF ~m.ready THEN {}
       ELSE CASE metric \in {"cpu", "cpu pressure"} -> {<<"cpu", 0>>}
              [] metric \in {"memory", "memory pressure"} -> {<<"memory", 0>>}
              [] metric \in {"disk", "io pressure"} -> all("disk")
              [] metric = "temperature" -> {<<"cpu", 0>>} \cup all("gpu")
              [] OTHER -> all(metric)

-----------------------------------------------------------------------------
(* What is on the screen at a point: the reference for the mouse handlers.  *)
Seen(u, p) ==
    LET s == u.screen
        offset == p.row - ContentTop - 8 + s.scroll
        k == offset \div Stride + 1
    IN CASE p.kind = "content" /\ s.page = "performance" ->
              IF /\ p.column = 0 /\ offset >= 0 /\ offset % Stride < 68
                 /\ k \in DOMAIN Entries(s.mon)
                 /\ p.row >= ContentTop /\ p.row < ContentBottom(s.h)
              THEN Entries(s.mon)[k] ELSE None
         [] p.kind = "content" /\ s.page = "overview" ->
              LET cards == draw_overview_page(s.h)
                  there == {n \in DOMAIN cards : /\ cards[n].column = p.column
                                                 /\ cards[n].lo <= p.row
                                                 /\ p.row < cards[n].hi}
              IN IF there = {} THEN None
                 ELSE <<cards[FirstOf(there)].metric, 0>>
         [] OTHER -> None

(* paint_window: the rectangles are those of the page it draws.             *)
paint_window(u) ==
    LET scroll == Clamped(u.scroll, u.mon, u.h)
        painted == [u EXCEPT
                       !.dirty = FALSE, !.click = NoClick, !.menus = TRUE, !.tabs = draw_page_tabs(u.w),
                       !.screen = [page |-> u.page, mon |-> u.mon, h |-> u.h,
                                   scroll |-> IF u.page = "performance" THEN scroll
                                              ELSE 0]]
    IN CASE u.page = "performance" ->
              [painted EXCEPT !.scroll = scroll, !.items = RailItems(u.mon, scroll, u.h)]
         [] u.page = "overview" -> [painted EXCEPT !.cards = draw_overview_page(u.h)]
         [] OTHER -> painted

-----------------------------------------------------------------------------
NoScreen == [page |-> "none", mon |-> NoMonitor, h |-> 0, scroll |-> 0]
FirstSize == CHOOSE size \in Sizes : TRUE
FirstUi ==
    [page |-> "performance", sel |-> <<"cpu", 0>>, status |-> <<"starting", None>>,
     mon |-> NoMonitor, tried |-> FALSE, scroll |-> 0, list |-> FALSE,
     w |-> FirstSize[1], h |-> FirstSize[2],
     dirty |-> TRUE, screen |-> NoScreen, menus |-> FALSE, items |-> <<>>,
     tabs |-> <<>>, cards |-> <<>>, hover |-> None, tracking |-> FALSE,
     armed |-> FALSE, untracked |-> FALSE, overtaken |-> FALSE,
     click |-> NoClick]

FirstApp == [at |-> "starting", about |-> "none", enabled |-> TRUE,
             quit |-> FALSE, freed |-> FALSE, abandoned |-> FALSE, smoke |-> FALSE]

Init ==
    /\ study \in Studies
    /\ app \in {[FirstApp EXCEPT !.smoke = s] :
                    s \in IF study = "life" THEN BOOLEAN ELSE {FALSE}}
    /\ gdi = NoObjects
    /\ theme \in {[mode |-> "night", palette |-> "none", title |-> "none",
                   list |-> "none", registry |-> r, dark |-> d, told |-> FALSE,
                   valid |-> v, unresolved |-> FALSE, unsaved |-> FALSE] :
                     r \in IF study = "theme" THEN Modes \cup {"none"} ELSE {"none"},
                     d \in IF study = "theme" THEN BOOLEAN ELSE {FALSE},
                     v \in IF study = "theme" THEN SUBSET {"day", "night"}
                           ELSE {{"day", "night"}}}
    /\ ui = FirstUi
    /\ hist = [cells |-> [n \in 0 .. HistoryCapacity - 1 |-> 0], count |-> 0,
               position |-> 0, told |-> <<>>]

Either(all, usual) == IF study = "life" THEN all ELSE usual

(* WinMain until the window is created: the design contract, and the night  *)
(* palette, are needed.                                                     *)
WinMain ==
    /\ app.at = "starting"
    /\ \E supported \in Either(BOOLEAN, {TRUE}) :
          LET t == lsm_windows_theme_resolve([theme EXCEPT !.mode = "night"])
              goes == supported /\ Resolved(t)
          IN /\ theme' = t
             /\ app' = [app EXCEPT !.at = IF goes THEN "creating" ELSE "ended",
                                   !.freed = ~goes]
    /\ UNCHANGED <<study, gdi, ui, hist>>

(* WM_CREATE.  Each step may fail, and what the steps before it made stays  *)
(* for destroy_state.                                                       *)
WM_CREATE ==
    /\ app.at = "creating"
    /\ LET t == lsm_windows_theme_load(theme)
       IN IF ~Resolved(t)
          THEN /\ theme' = t /\ gdi' = gdi
               /\ app' = [app EXCEPT !.at = "refused"] /\ ui' = ui
          ELSE \E found \in Either({{}, {"ui regular", "brand"}, FontResources},
                                   {FontResources}),
                  exact \in Either({{"body_font"}, Fonts}, {Fonts}),
                  child \in Either(BOOLEAN, {TRUE}) :
                  LET one == install_embedded_typography(gdi, found)
                      two == IF found = FontResources
                             THEN create_fonts(one, exact) ELSE one
                      made == found = FontResources /\ exact = Fonts /\ child
                  IN /\ gdi' = two
                     /\ theme' = IF made THEN Applied(t) ELSE t
                     /\ app' = [app EXCEPT !.at = IF made THEN "open" ELSE "refused"]
                     /\ ui' = ui
    /\ UNCHANGED <<study, hist>>

(* A window whose WM_CREATE fails is destroyed; whether it was told so with *)
(* WM_DESTROY or not, WinMain then calls destroy_state itself.              *)
CreateWindowFails ==
    /\ app.at = "refused"
    /\ \E told \in BOOLEAN :
          gdi' = destroy_state(IF told THEN destroy_state(gdi) ELSE gdi)
    /\ app' = [app EXCEPT !.at = "ended", !.freed = TRUE]
    /\ UNCHANGED <<study, theme, ui, hist>>

Open == app.at = "open"
Usable == Open /\ app.enabled /\ ~app.smoke

(* UpdateWindow paints once, then a smoke run destroys its window.          *)
SmokeEnds ==
    /\ Open /\ app.smoke /\ ~ui.dirty
    /\ gdi' = destroy_state(gdi)
    /\ app' = [app EXCEPT !.at = "ended", !.freed = TRUE]
    /\ UNCHANGED <<study, theme, ui, hist>>

WM_PAINT ==
    /\ Open /\ ui.dirty
    /\ \E made \in Either(BOOLEAN, {TRUE}) :
          LET g == ensure_backbuffer(gdi, <<ui.w, ui.h>>, made)
          IN IF g.bitmap # 0 /\ g.size = <<ui.w, ui.h>>
             THEN /\ gdi' = [g EXCEPT !.font = "body_font"]
                  /\ ui' = paint_window(ui)
             ELSE gdi' = g /\ ui' = [ui EXCEPT !.dirty = FALSE]
    /\ UNCHANGED <<study, app, theme, hist>>

WM_SIZE ==
    /\ Open /\ ~app.smoke /\ study \in {"life", "mouse"}
    /\ \E size \in Sizes \ {<<ui.w, ui.h>>} :
          ui' = [ui EXCEPT !.w = size[1], !.h = size[2], !.dirty = TRUE,
                           !.click = NoClick]
    /\ UNCHANGED <<study, app, gdi, theme, hist>>

-----------------------------------------------------------------------------
(* The About window: its loop dispatches the main window's messages too.    *)
show_about_window ==
    /\ Usable /\ study \in {"life", "theme"} /\ app.about # "modal"
    /\ app' = [app EXCEPT !.about = "modal", !.enabled = FALSE]
    /\ UNCHANGED <<study, gdi, theme, ui, hist>>

lsm_windows_about_proc ==
    /\ app.about # "none"
    /\ app' = [app EXCEPT !.about = "none", !.enabled = TRUE]
    /\ UNCHANGED <<study, gdi, theme, ui, hist>>

(* GetMessageW fails in the About window's loop: the loop ends, its window  *)
(* stays.                                                                   *)
AboutLoopFails ==
    /\ app.about = "modal"
    /\ app' = [app EXCEPT !.about = "loose", !.enabled = TRUE]
    /\ UNCHANGED <<study, gdi, theme, ui, hist>>

(* WM_DESTROY, from Exit (which needs the window enabled) or WM_CLOSE: the  *)
(* owned About window goes first.                                           *)
WM_DESTROY ==
    /\ Open /\ ~app.smoke /\ study \in {"life", "theme"}
    /\ gdi' = destroy_state(gdi)
    /\ \E worker \in Either(BOOLEAN, {FALSE}) :
          app' = [app EXCEPT !.at = "destroyed", !.about = "none",
                             !.quit = TRUE, !.abandoned = worker]
    /\ UNCHANGED <<study, theme, ui, hist>>

(* The main loop takes WM_QUIT, or fails and destroys the window itself.    *)
MainLoopEnds ==
    /\ app.at = "destroyed" /\ app.quit
    /\ app' = [app EXCEPT !.at = "ended", !.freed = ~app.abandoned]
    /\ UNCHANGED <<study, gdi, theme, ui, hist>>

MainLoopFails ==
    /\ study = "life" /\ Open /\ ~app.smoke /\ app.about # "modal"
    /\ gdi' = destroy_state(gdi)
    /\ \E worker \in BOOLEAN :
          app' = [app EXCEPT !.at = "ended", !.about = "none", !.quit = TRUE,
                             !.abandoned = worker, !.freed = ~worker]
    /\ UNCHANGED <<study, theme, ui, hist>>

(* The next start of the program.                                           *)
Restart ==
    /\ app.at = "ended" /\ study = "theme"
    /\ app' = FirstApp /\ gdi' = NoObjects /\ ui' = FirstUi
    /\ theme' = [theme EXCEPT !.unresolved = FALSE, !.unsaved = FALSE,
                              !.told = FALSE]
    /\ UNCHANGED <<study, hist>>

-----------------------------------------------------------------------------
(* Theme.                                                                   *)
lsm_windows_theme_save(t) ==
    {[t EXCEPT !.registry = t.mode, !.unsaved = FALSE], [t EXCEPT !.unsaved = TRUE]}

(* WM_COMMAND from the Theme menu.                                          *)
ThemeChosen ==
    /\ Usable /\ study = "theme" /\ ui.menus
    /\ \E mode \in Modes :
          LET t == [theme EXCEPT !.mode = mode]
          IN IF ~Resolved(t)
             THEN theme' = [t EXCEPT !.unresolved = TRUE, !.unsaved = TRUE]
             ELSE \E s \in lsm_windows_theme_save(lsm_windows_theme_resolve(t)) :
                     theme' = [Applied(s) EXCEPT !.unresolved = FALSE]
    /\ ui' = [ui EXCEPT !.dirty = TRUE]
    /\ UNCHANGED <<study, app, gdi, hist>>

SystemChanges ==
    /\ study = "theme" /\ Open
    /\ theme' = [theme EXCEPT !.dark = ~@, !.told = TRUE]
    /\ UNCHANGED <<study, app, gdi, ui, hist>>

WM_SETTINGCHANGE ==
    /\ Open /\ theme.told
    /\ LET t == [theme EXCEPT !.told = FALSE]
       IN theme' = IF t.mode # "system" THEN t
                   ELSE IF ~Resolved(t) THEN [t EXCEPT !.unresolved = TRUE]
                   ELSE [Applied(lsm_windows_theme_resolve(t))
                            EXCEPT !.unresolved = FALSE]
    /\ UNCHANGED <<study, app, gdi, ui, hist>>

-----------------------------------------------------------------------------
(* Samples and the mouse.                                                   *)
WM_TIMER ==
    /\ Open /\ study \in {"mouse", "hover"}
    /\ ui' \in refresh_active_page([ui EXCEPT !.click = NoClick])
    /\ UNCHANGED <<study, app, gdi, theme, hist>>

(* WM_MOUSEMOVE asks once to be told of the pointer leaving.                *)
WM_MOUSEMOVE ==
    /\ Usable /\ study = "hover"
    /\ \E p \in Points, asked \in BOOLEAN :
          LET now == ui.tracking \/ asked
              at == HitTest(ui, p)
          IN /\ ui.tracking => asked
             /\ ui' = [ui EXCEPT !.tracking = now, !.hover = at,
                                 !.armed = @ \/ (~ui.tracking /\ asked),
                                 !.untracked = ~now,
                                 !.dirty = @ \/ at # ui.hover]
    /\ UNCHANGED <<study, app, gdi, theme, hist>>

WM_MOUSELEAVE ==
    /\ Open /\ ui.armed
    /\ ui' = [ui EXCEPT !.armed = FALSE, !.tracking = FALSE, !.hover = None,
                        !.dirty = TRUE]
    /\ UNCHANGED <<study, app, gdi, theme, hist>>

WM_MOUSEWHEEL ==
    /\ Usable /\ study = "mouse" /\ ui.page = "performance"
    /\ \E notch \in {-1, 1} :
          LET to == ui.scroll - notch * Stride
          IN /\ to <= MaxScroll
             /\ ui' = [ui EXCEPT !.scroll = IF to < 0 THEN 0 ELSE to, !.dirty = TRUE,
                                 !.click = NoClick]
    /\ UNCHANGED <<study, app, gdi, theme, hist>>

(* WM_LBUTTONUP.                                                            *)
Clicked(u, p, did) ==
    [u EXCEPT !.click = [fresh |-> ~u.dirty, seen |-> Seen(u, p), did |-> did]]

WM_LBUTTONUP ==
    /\ Usable /\ study \in {"mouse", "hover"}
    /\ \E p \in Points :
          LET at == HitTest(ui, p)
          IN \/ /\ at[1] = "tab"
                /\ ui' \in show_page([ui EXCEPT !.click = NoClick],
                                     TabLabels[at[2]])
             \/ /\ at[1] = "card"
                /\ \E target \in Targets(ui.cards[at[2]].metric, ui.mon) :
                      ui' \in show_page(
                          [Clicked(ui, p, <<ui.cards[at[2]].metric, 0>>)
                               EXCEPT !.sel = target], "performance")
             \/ /\ at[1] = "item"
                /\ LET entry == ui.items[at[2]].entry
                   IN ui' = set_performance_status(
                          [Clicked(ui, p, entry)
                              EXCEPT !.sel = entry, !.dirty = TRUE,
                                     !.overtaken = @ \/ ~Exists(entry, ui.mon)])
             \/ at = None /\ ui' = Clicked(ui, p, None)
    /\ UNCHANGED <<study, app, gdi, theme, hist>>

(* A completed sample enters the history, measured or not.                  *)
SampleRecorded ==
    /\ Open /\ study = "graph" /\ Len(hist.told) < MaxSamples
    /\ \E value \in Readings \cup {Unmeasured} : hist' = append_history(hist, value)
    /\ UNCHANGED <<study, app, gdi, theme, ui>>

Next ==
    \/ WinMain \/ WM_CREATE \/ CreateWindowFails \/ SmokeEnds \/ WM_PAINT
    \/ WM_SIZE \/ show_about_window \/ lsm_windows_about_proc \/ AboutLoopFails
    \/ WM_DESTROY \/ MainLoopEnds \/ MainLoopFails \/ Restart
    \/ ThemeChosen \/ SystemChanges \/ WM_SETTINGCHANGE
    \/ WM_TIMER \/ WM_MOUSEMOVE \/ WM_MOUSELEAVE \/ WM_MOUSEWHEEL \/ WM_LBUTTONUP
    \/ SampleRecorded

Spec == Init /\ [][Next]_vars

-----------------------------------------------------------------------------
TypeOK ==
    /\ study \in Studies
    /\ app.at \in {"starting", "creating", "refused", "open", "destroyed", "ended"}
    /\ app.about \in {"none", "modal", "loose"}
    /\ gdi.live \subseteq Fonts \cup FontResources /\ gdi.bitmap \in 0 .. 2
    /\ theme.mode \in Modes /\ theme.registry \in Modes \cup {"none"}
    /\ ui.page \in ToSet(TabLabels) /\ ui.scroll \in 0 .. MaxScroll
    /\ hist.count \in 0 .. HistoryCapacity

(* Whichever step of the creation fails, and however the window is resized  *)
(* and closed, every object is deleted once: the state points at exactly    *)
(* the fonts that exist and at the one bitmap there is, and nothing is left *)
(* at the end but the font the back buffer still had selected               *)
(* (destroy_state deletes the fonts before the DC).  The state itself is    *)
(* freed unless a worker still uses it, and the window answers again when   *)
(* the About window is gone.                                                *)
ObjectsReleasedOnce ==
    /\ ~gdi.bad
    /\ gdi.held \subseteq gdi.live
    /\ gdi.bitmaps = {gdi.bitmap} \ {0}
    /\ app.at = "ended" => /\ gdi.live \subseteq {"body_font"}
                           /\ gdi.bitmaps = {} /\ gdi.held = {}
                           /\ app.freed = ~app.abandoned
    /\ Open /\ app.about = "none" => app.enabled

(* Unless the palette asked for is not valid, the window, the list and the  *)
(* title bar are in the theme of the chosen mode and of the system's last   *)
(* preference it was told of, and the registry keeps the mode a next start  *)
(* will use (WM_COMMAND, WM_SETTINGCHANGE, lsm_windows_theme_load).         *)
ThemeAgrees ==
    Open /\ ~theme.unresolved =>
        /\ theme.list = theme.palette
        /\ theme.title = theme.palette
        /\ ~theme.told =>
              \A m \in show_view_menu(theme) :
                  theme.palette = infiltratr_theme_resolve(m, theme.dark)
        /\ \/ theme.unsaved
           \/ theme.mode = IF theme.registry = "none" THEN "night" ELSE theme.registry

(* Once the window shows its state, a click selects the entry or follows    *)
(* the card that is on the screen under the pointer, and does nothing where *)
(* nothing is drawn, the part of an entry scrolled out of the rail included *)
(* (WM_LBUTTONUP and the rectangles painting leaves).                       *)
ClickMeant == ui.click.fresh => ui.click.did = ui.click.seen

(* The Performance page shows a device that the newest sample lists, except *)
(* after a click on an entry of an older list, until the next sample; and   *)
(* the status bar names what is selected (validate_performance_selection,   *)
(* set_performance_status).                                                 *)
SelectionShown ==
    /\ ui.list = (ui.page = "processes")
    /\ ui.page = "performance" /\ ui.tried =>
        /\ ui.status = <<"performance", ui.sel>>
        /\ ui.mon.ready /\ ~ui.overtaken => Exists(ui.sel, ui.mon)

(* A painted rail is scrolled neither before its first entry nor past its   *)
(* last, whatever devices went away since it was scrolled; and the parts of *)
(* the page do not overlap, the rows included when the window is tall       *)
(* enough for the details.                                                  *)
RailFilled ==
    ~ui.dirty /\ ui.screen.page = "performance" =>
        /\ ui.scroll \in 0 .. Maximum(ui.screen.mon, ui.screen.h)
        /\ \A k \in DOMAIN ui.items :
               /\ ui.items[k].hi <= ContentBottom(ui.screen.h)
               /\ ui.items[k].lo >= ContentTop
        /\ LET parts == Body(ui.sel, ui.screen.h)
               panel == parts[Len(parts) - 1]
           IN /\ \A k \in 1 .. Len(parts) - 2 : parts[k].hi <= parts[k + 1].lo
              /\ \/ Last(parts).hi <= panel.hi
                 \/ /\ ui.sel[1] \in {"cpu", "memory"}
                    /\ ContentBottom(ui.screen.h) - ContentTop < 517

(* Something is highlighted only while the window will be told of the       *)
(* pointer leaving it, unless it could not be asked (WM_MOUSEMOVE,          *)
(* WM_MOUSELEAVE).                                                          *)
HoverEnds == ui.hover # None => ui.armed \/ ui.untracked

(* The graphs read the ring in the order of the samples, oldest first, and  *)
(* join two readings exactly when they are neighbours and both were         *)
(* measured (history_value, draw_history_graph).                            *)
HistoryInOrder ==
    LET skipped == Len(hist.told) - hist.count
        kept == [i \in 0 .. hist.count - 1 |-> hist.told[skipped + i + 1]]
    IN /\ \A i \in 0 .. hist.count - 1 : history_value(hist, i) = kept[i]
       /\ {draw_history_graph(hist),
             draw_overview_sparkline([k \in 1 .. hist.count |-> kept[k - 1]])} =
             {{<<i, i + 1>> : i \in {n \in 0 .. hist.count - 2 :
                 kept[n] # Unmeasured /\ kept[n + 1] # Unmeasured}}}
=============================================================================
