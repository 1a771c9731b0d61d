---------------------------- MODULE DesktopInput ----------------------------
(***************************************************************************)
(* Keyboard, mouse and windows (os/input, os/windows, and the input and    *)
(* window operations of backends/windows.py and backends/linux.py on X11). *)
(* A call is a sequence of events that the system accepts or rejects one   *)
(* by one; calls overlap, and the user, the applications and the window    *)
(* manager act between any two steps.  What the focused window does with   *)
(* an event is unknown.                                                    *)
(***************************************************************************)
EXTENDS Naturals, Sequences

CONSTANTS
    Hands,     \* requests under way
    Windows,   \* window handles
    MaxCalls,  \* bound: calls of the API
    MaxFaults  \* bound: events rejected, reads that fail and acts of the user

VARIABLES
    backend, \* "windows" or "linux"
    held,    \* key or button -> the kind of call that pressed it
    open,    \* windows that exist
    win,     \* window -> [active, state, x, width]; one of either pair of numbers
    act,     \* hand -> its call
    stuck,   \* keys whose release was rejected (history)
    want,    \* window -> [x, width] as last asked for (history)
    calls, faults

diVars == <<backend, held, open, win, act, stuck, want, calls, faults>>

Modifier == "ctrl"
Letter == "c"
Button == "left"
Keys == {Modifier, Letter, Button}
Nobody == "nobody"
Idle == [at |-> "idle"]
Shape(w) == [x |-> win[w].x, width |-> win[w].width]

Init ==
    /\ backend \in {"windows", "linux"}
    /\ held = [k \in Keys |-> Nobody]
    /\ open = Windows
    /\ win = [w \in Windows |-> [active |-> FALSE, state |-> "normal", x |-> 0, width |-> 0]]
    /\ act = [h \in Hands |-> Idle]
    /\ stuck = {} /\ want = [w \in Windows |-> [x |-> 0, width |-> 0]]
    /\ calls = 0 /\ faults = 0

Fault(bad) == (bad => faults < MaxFaults) /\ faults' = faults + (IF bad THEN 1 ELSE 0)

\* Everybody's reading of the windows is out of date now.
Disturb(a) == [h \in Hands |-> IF a[h].at = "idle" THEN a[h] ELSE [a[h] EXCEPT !.disturbed = TRUE]]

-----------------------------------------------------------------------------
(* The events of each call                                                 *)

\* A checked event ends the call when it is rejected.
Event(does, key) == [does |-> does, key |-> key, checked |-> TRUE]
Down(k) == Event("down", k)
Up(k) == Event("up", k)
Tap(k) == Event("tap", k)  \* down and up given to the system together
Move == Event("move", Button)
Unchecked(e) == [e EXCEPT !.checked = FALSE]

\* Windows: one SendInput per event; mouse_event, which a click prefers,
\* answers nothing.
WindowsPointer == [click |-> <<Move, Unchecked(Tap(Button))>>,
                   drag |-> <<Move, Down(Button), Unchecked(Move), Up(Button)>>]
WindowsGestures == [double_click |-> <<Move, Tap(Button)>>, scroll |-> <<Move, Tap(Button)>>]
WindowsPress == [press |-> <<Down(Modifier), Down(Letter), Up(Letter), Up(Modifier)>>]
WindowsKeys == [key_down |-> <<Down(Modifier)>>, key_up |-> <<Up(Modifier)>>,
                hotkey |-> <<Down(Modifier), Down(Letter)>>,
                type |-> <<Tap(Letter), Down(Letter), Up(Letter)>>]

\* Linux: one xdotool per event; the older calls drop its exit code.
LinuxOlder == [click |-> <<Unchecked(Move), Unchecked(Tap(Button))>>,
               press |-> <<Unchecked(Tap(Letter))>>, type |-> <<Unchecked(Tap(Letter))>>]
LinuxNewer == [double_click |-> <<Move, Tap(Button)>>, scroll |-> <<Move, Tap(Button)>>,
               key_down |-> <<Down(Modifier)>>, key_up |-> <<Up(Modifier)>>,
               hotkey |-> <<Tap(Modifier)>>, drag |-> <<Move, Down(Button), Move>>]

Kinds == DOMAIN LinuxOlder \cup DOMAIN LinuxNewer
OnWindows == [kind \in Kinds |->
    CASE kind \in DOMAIN WindowsPointer -> WindowsPointer[kind]
      [] kind \in DOMAIN WindowsGestures -> WindowsGestures[kind]
      [] kind \in DOMAIN WindowsPress -> WindowsPress[kind]
      [] kind \in DOMAIN WindowsKeys -> WindowsKeys[kind]]
OnLinux == [kind \in Kinds |-> IF kind \in DOMAIN LinuxOlder THEN LinuxOlder[kind] ELSE LinuxNewer[kind]]
Events == IF backend = "windows" THEN OnWindows ELSE OnLinux

\* What a call releases in its `finally`, whatever happened before.
LetsGo(kind) == kind = (IF backend = "windows" THEN "hotkey" ELSE "drag")

-----------------------------------------------------------------------------
(* Input                                                                   *)

Starts(h) == act[h].at \in {"idle", "done"} /\ calls < MaxCalls /\ calls' = calls + 1

Begin(h, kind) ==
    /\ Starts(h)
    /\ act' = [act EXCEPT ![h] = [at |-> "send", kind |-> kind, rest |-> Events[kind], pressed |-> <<>>,
                                  ok |-> TRUE, missed |-> FALSE, disturbed |-> FALSE]]
    /\ UNCHANGED <<backend, held, open, win, stuck, want, faults>>

\* SendInput may take the first half of a down and an up, and says so.
Outcomes(e) == {"all", "none"} \cup (IF backend = "windows" /\ e.does = "tap" THEN {"half"} ELSE {})

Effect(e, kind, how) ==
    CASE how = "none" \/ e.does = "move" -> held
      [] how = "half" \/ (how = "all" /\ e.does = "down") -> [held EXCEPT ![e.key] = kind]
      [] how = "all" /\ e.does \in {"up", "tap"} -> [held EXCEPT ![e.key] = Nobody]

\* Mutated form of Continues: nobody looks at what SendInput says.
ContinuesAnyway(e, how) == TRUE

Continues(e, how) == e.checked => how = "all"

Send(h) ==
    /\ act[h].at = "send" /\ act[h].rest # <<>>
    /\ LET e == Head(act[h].rest) IN
       \E how \in Outcomes(e) :
        /\ Fault(how # "all")
        /\ held' = Effect(e, act[h].kind, how)
        /\ act' = [act EXCEPT
            ![h].rest = IF Continues(e, how) THEN Tail(@) ELSE <<>>,
            ![h].ok = Continues(e, how),
            ![h].missed = @ \/ how # "all",
            ![h].pressed = IF how = "all" /\ e.does = "down" THEN Append(@, e.key) ELSE @]
    /\ UNCHANGED <<backend, open, win, stuck, want, calls>>

\* Mutated form of Owed: only a call that went well lets go.
OwedIfWell(h) == IF LetsGo(act[h].kind) /\ act[h].ok THEN act[h].pressed ELSE <<>>

Owed(h) == IF LetsGo(act[h].kind) THEN act[h].pressed ELSE <<>>

\* In reverse; Windows does not ask whether a release was accepted.
Release(h, rejected) ==
    /\ act[h].at = "send" /\ act[h].rest = <<>> /\ Owed(h) # <<>> /\ Fault(rejected)
    /\ LET k == Owed(h)[Len(Owed(h))] IN
        /\ held' = IF rejected THEN held ELSE [held EXCEPT ![k] = Nobody]
        /\ stuck' = IF rejected THEN stuck \cup {k} ELSE stuck
    /\ act' = [act EXCEPT ![h].pressed = SubSeq(@, 1, Len(@) - 1),
                          ![h].ok = @ /\ (rejected => backend = "windows"),
                          ![h].missed = @ \/ rejected]
    /\ UNCHANGED <<backend, open, win, want, calls>>

\* A drag on Linux reads where the pointer ended up.
Answer(h, elsewhere) ==
    /\ act[h].at = "send" /\ act[h].rest = <<>> /\ Owed(h) = <<>>
    /\ elsewhere => backend = "linux" /\ act[h].kind = "drag"
    /\ act' = [act EXCEPT ![h].at = "done", ![h].ok = @ /\ ~elsewhere]
    /\ UNCHANGED <<backend, held, open, win, stuck, want, calls, faults>>

-----------------------------------------------------------------------------
(* Windows                                                                 *)

States == [minimize |-> "minimized", maximize |-> "maximized", restore |-> "normal"]
Commands == DOMAIN States \cup {"focus", "close", "move", "resize"}

Closed(w) == open' = open \ {w} /\ win' = [win EXCEPT ![w].active = FALSE] /\ act' = Disturb(act)

\* Only one window has the focus.
Focused(w) == [v \in Windows |-> [win[v] EXCEPT !.active = v = w]]

\* The user closes a window, looks at it, maximizes it or makes it wider.
UserActs(w) ==
    /\ w \in open /\ Fault(TRUE)
    /\ \/ Closed(w) /\ want' = want
       \/ /\ UNCHANGED open /\ act' = Disturb(act)
          /\ \/ win' = Focused(w) /\ want' = want
             \/ win' = [win EXCEPT ![w].state = "maximized"] /\ want' = want
             \/ win' = [win EXCEPT ![w].width = 2] /\ want' = [want EXCEPT ![w].width = 2]
    /\ UNCHANGED <<backend, held, stuck, calls>>

\* A window that is not there, or whose geometry cannot be read, is refused.
BeginWindow(h, kind, w, found) ==
    /\ Starts(h) /\ (found => w \in open) /\ Fault(~found /\ w \in open)
    /\ act' = [act EXCEPT ![h] = [at |-> IF found THEN "ask" ELSE "done", kind |-> kind, ok |-> FALSE,
                                  missed |-> FALSE, verified |-> FALSE, disturbed |-> FALSE,
                                  window |-> w, before |-> Shape(w)]]
    /\ UNCHANGED <<backend, held, open, win, stuck, want>>

\* Mutated form of Moved: the others as they were at first.
MovedToOrigin(h) ==
    IF act[h].kind = "move" THEN [x |-> 1, width |-> 0] ELSE [x |-> 0, width |-> 1]

\* Windows is given all the numbers, the others as they were read before.
Moved(h) ==
    LET old == IF backend = "windows" THEN act[h].before ELSE Shape(act[h].window)
    IN  IF act[h].kind = "move" THEN [old EXCEPT !.x = 1] ELSE [old EXCEPT !.width = 1]

Changed(h) ==
    LET w == act[h].window
        kind == act[h].kind
    IN  CASE kind = "focus" -> Focused(w)
          [] kind = "close" -> win
          [] kind \in {"move", "resize"} -> [win EXCEPT ![w].x = Moved(h).x, ![w].width = Moved(h).width]
          [] kind = "restore" -> [Focused(w) EXCEPT ![w].state = "normal"]
          [] kind = "minimize" -> [win EXCEPT ![w].state = "minimized", ![w].active = FALSE]
          [] kind = "maximize" -> [win EXCEPT ![w].state = "maximized"]

\* What was asked for; what a stale reading brought back counts as well.
Wanted(h) ==
    LET w == act[h].window IN
    IF act[h].disturbed THEN Moved(h)
    ELSE IF act[h].kind = "move" THEN [want[w] EXCEPT !.x = 1] ELSE [want[w] EXCEPT !.width = 1]

\* The focus, a close on Linux and a restore there go on to look all the same.
Fatal(kind) == kind # "focus" /\ (backend = "linux" => kind \notin {"close", "restore"})

\* The window manager grants what was asked or does not, or the call fails; a
\* request to close is only delivered.
Ask(h, how) ==
    LET w == act[h].window
        does == how = "granted" /\ w \in open
    IN  /\ act[h].at = "ask" /\ Fault(how = "error")
        /\ LET at == IF how = "error" /\ Fatal(act[h].kind) THEN "done" ELSE "look"
               a == [act EXCEPT ![h].at = at]
           IN  act' = IF does THEN Disturb(a) ELSE a
        /\ win' = IF does THEN Changed(h) ELSE win
        /\ want' = IF does /\ act[h].kind \in {"move", "resize"} THEN [want EXCEPT ![w] = Wanted(h)] ELSE want
        /\ UNCHANGED <<backend, held, open, stuck, calls>>

\* The application closes the window, or shows a dialogue and does not.
Obey(w) ==
    /\ w \in open /\ \E h \in Hands : act[h].at = "look" /\ act[h].kind = "close" /\ act[h].window = w
    /\ Closed(w)
    /\ UNCHANGED <<backend, held, stuck, want, calls, faults>>

HasFocus(w) == win[w].active
HasState(w, kind) == win[w].state = States[kind]
IsGone(w) == w \notin open

\* Mutated form of Observed: a request that was delivered has worked.
ObservedDelivered(kind, w) == TRUE

Observed(kind, w) ==
    CASE kind = "focus" -> HasFocus(w)
      [] kind = "close" -> IsGone(w)
      [] kind \in {"move", "resize"} -> ~IsGone(w)
      [] kind \in DOMAIN States -> HasState(w, kind)

\* A geometry that cannot be read is a window that is gone; a state that cannot
\* be read on Linux is taken on trust, and said not to be verified.
Trusted(kind) == kind = "close" \/ (kind \in DOMAIN States /\ backend = "linux")

\* Read back what happened; a close is asked for until it is seen or too late.
Look(h, unread) ==
    LET kind == act[h].kind
        w == act[h].window
        blind == unread \/ (kind \in DOMAIN States /\ IsGone(w))
        verified == kind = "close" \/ (~blind /\ kind \notin {"move", "resize"})
    IN  /\ act[h].at = "look" /\ Fault(unread)
        /\ act' = [act EXCEPT ![h] = [@ EXCEPT
                !.at = "done", !.ok = IF blind THEN Trusted(kind) ELSE Observed(kind, w),
                !.verified = verified, !.missed = unread, !.disturbed = FALSE]]
        /\ UNCHANGED <<backend, held, open, win, stuck, want, calls>>

Next ==
    \/ \E h \in Hands :
        \/ \E kind \in Kinds : Begin(h, kind)
        \/ Send(h)
        \/ \E bad \in BOOLEAN : Release(h, bad) \/ Answer(h, bad) \/ Look(h, bad)
        \/ \E kind \in Commands, w \in Windows, found \in BOOLEAN : BeginWindow(h, kind, w, found)
        \/ \E how \in {"granted", "refused", "error"} : Ask(h, how)
    \/ \E w \in Windows : UserActs(w) \/ Obey(w)

Spec == Init /\ [][Next]_diVars

-----------------------------------------------------------------------------
(* Properties                                                              *)

TypeOK ==
    /\ held \in [Keys -> Kinds \cup {Nobody}] /\ open \subseteq Windows /\ stuck \subseteq Keys
    /\ \A w \in Windows : win[w].active => w \in open
    /\ \A h \in Hands : act[h].at \in {"idle", "send", "ask", "look", "done"}

Done(h) == act[h].at = "done"

(***************************************************************************)
(* Once all calls are over, no chord on Windows and no drag on Linux has   *)
(* left a key or button down, even if one of its events was rejected,      *)
(* unless a release was ("release even on failure": hotkey, mouse_drag).   *)
(***************************************************************************)
NothingStaysDown ==
    (\A h \in Hands : act[h].at \in {"idle", "done"}) =>
        \A k \in Keys : LetsGo(held[k]) => k \in stuck

(***************************************************************************)
(* An answer of success means that every event of the call was accepted,   *)
(* where the code asks: on Windows everywhere but in clicks, the moves of  *)
(* a drag and the releases of a chord, on Linux in the newer calls.        *)
(***************************************************************************)
SuccessMeansAccepted ==
    \A h \in Hands : Done(h) /\ act[h].ok /\ act[h].missed /\ act[h].kind \in Kinds =>
        act[h].kind \in {"click"} \cup IF backend = "windows" THEN {"drag", "hotkey"} ELSE {"press", "type"}

(***************************************************************************)
(* What is said to be verified was seen: a window reported closed is       *)
(* closed and not merely asked to, one reported focused or maximized was   *)
(* so when nobody has touched the windows since (close_window: "WAIT to    *)
(* see whether it did"; focus_window: "CHECK that it got it").             *)
(***************************************************************************)
VerifiedWasSeen ==
    \A h \in Hands : Done(h) /\ act[h].kind \in Commands /\ act[h].ok /\ act[h].verified /\ ~act[h].missed =>
        LET w == act[h].window IN
        IF act[h].kind = "close" THEN w \notin open
        ELSE \/ act[h].disturbed
             \/ w \in open /\ IF act[h].kind = "focus" THEN win[w].active ELSE win[w].state = States[act[h].kind]

(***************************************************************************)
(* A move leaves the size alone and a resize the place, also when calls    *)
(* overlap, except on Windows when the window changed after it was read    *)
(* (_move_or_resize).                                                      *)
(***************************************************************************)
MovesKeepTheRest == \A w \in Windows : Shape(w) = want[w]

(***************************************************************************)
(* What callers are told of the desktop is so, and it is left usable.      *)
(***************************************************************************)
DesktopIsSound == NothingStaysDown /\ SuccessMeansAccepted /\ VerifiedWasSeen /\ MovesKeepTheRest

=============================================================================
