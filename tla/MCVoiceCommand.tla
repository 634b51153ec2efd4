--------------------------- MODULE MCVoiceCommand ---------------------------
(***************************************************************************)
(* Situations for VoiceCommand: three or four monitors with windows of     *)
(* three applications, one of them twice, and a few dozen utterances, each *)
(* with every way of looking that the gaze ring tells apart.               *)
(***************************************************************************)
EXTENDS VoiceCommand

Words == [m \in {"DP-1", "XR-1", "XR-code", "Living TV+"} |->
            CASE m = "DP-1" -> {"dp", "1"} [] m = "XR-1" -> {"xr", "1"}
              [] m = "XR-code" -> {"xr", "code"} [] OTHER -> {"living", "tv"}]
        @@ [m \in {"XR-2", "XR-3"} |-> IF m = "XR-2" THEN {"xr", "2"} ELSE {"xr", "3"}]

\* Windows: a browser on two monitors, a terminal, and a chat.
Classes == [w \in {"0xa", "0xb", "0xc", "0xd"} |->
              CASE w \in {"0xa", "0xc"} -> {"firefox"} [] w = "0xb" -> {"kitty"} [] OTHER -> {"signal"}]
Titles == [w \in {"0xa", "0xb", "0xc", "0xd"} |->
             CASE w = "0xa" -> {"youtube", "video"} [] w = "0xb" -> {"notes"}
               [] w = "0xc" -> {"wiki", "notes"} [] OTHER -> {"video"}]
Class == [w \in {"0xa", "0xb", "0xc", "0xd"} |->
            CASE w \in {"0xa", "0xc"} -> "firefox" [] w = "0xb" -> "kitty" [] OTHER -> "signal"]

Inflections == {<<"coding", "code">>}
Generics == {<<"browser", "firefox">>, <<"terminal", "kitty">>}
NewNames == <<"XR-2", "XR-3">>
Numbered == [m \in DOMAIN Words |->
               CASE m = "DP-1" -> 0 [] m = "XR-1" -> 1 [] m = "XR-code" -> 2
                 [] m = "Living TV+" -> 3 [] m = "XR-2" -> 4 [] OTHER -> 5]
Allowed == {<<"firefox">>}
PlainNames == DOMAIN Words \ {"Living TV+"}

Monitor(name, x) == [name |-> name, x |-> x, workspace |-> None]
Client(address, monitor, focus) ==
  [address |-> address, monitor |-> monitor, mapped |-> TRUE, focus |-> focus]
Xr(name, hovered) == [name |-> name, hovered |-> hovered]

Desk ==
  [mons    |-> <<Monitor("DP-1", 0), Monitor("XR-1", 10), Monitor("XR-code", 20)>>,
   clients |-> <<Client("0xa", "DP-1", 1), Client("0xb", "XR-code", 0), Client("0xc", "XR-1", 2)>>,
   status  |-> <<Xr("XR-1", TRUE), Xr("XR-code", FALSE)>>,
   coming  |-> {},
   chosen  |-> "XR-1"]

\* Two monitors at the left edge, one of them oddly named; no window in use.
OddDesk ==
  [Desk EXCEPT !.mons = Append(@, Monitor("Living TV+", 0)),
               !.clients = <<Client("0xa", "DP-1", 1), Client("0xd", "XR-1", 2)>>]

\* An XR output that only openxr status lists, and nothing under the pointer.
SplitDesk == [Desk EXCEPT !.mons = SubSeq(@, 1, 2),
                          !.status = <<Xr("XR-1", FALSE), Xr("XR-code", FALSE)>>]

On   == [dryRun |-> FALSE, xrmonitor |-> TRUE, launch |-> TRUE, window |-> TRUE, create |-> TRUE,
         targetedGrab |-> FALSE, placeAtPose |-> TRUE]
Bare == [On EXCEPT !.placeAtPose = FALSE, !.targetedGrab = TRUE, !.launch = FALSE]
Dry  == [On EXCEPT !.dryRun = TRUE]
Off  == [On EXCEPT !.xrmonitor = FALSE, !.window = FALSE]
NoCreate == [On EXCEPT !.create = FALSE]

\* Ways of looking: at one monitor; from one to another; a glance aside; a
\* monitor that has gone; at none; past one, and past one that has gone, with
\* neither selected; with no answer for a while, or ever.
Seen(m) == Sample(TRUE, Numbered[m], m, TRUE, 2, 4)
Glance(m) == Sample(TRUE, Numbered[m], m, TRUE, 1, 0)
Past(m) == Sample(TRUE, Numbered[m], m, FALSE, 0, 0)
Steady == <<Seen("XR-code")>>
Turning == <<Seen("DP-1"), Seen("DP-1"), Seen("DP-1"), Seen("XR-code"), Glance("XR-code"),
             Glance("XR-code")>>
Saccade == <<Glance("XR-code"), Glance("DP-1"), Seen("XR-code"), Glance("XR-1"), Seen("XR-code"),
             Glance("XR-code")>>
Gone == <<Seen("XR-3")>>
Through == <<Passthrough, Sample(TRUE, Numbered["XR-1"], "XR-1", TRUE, 1, 1), Passthrough>>
Skimming == <<Past("XR-code"), Glance("DP-1"), Past("XR-3"), Past("XR-1"), Past("XR-3")>>
Patchy == <<Missed, Missed, Missed, Seen("XR-1"), Missed, Seen("XR-code")>>
Blind == <<Missed>>
Looks == {Steady, Turning, Saccade, Gone, Through, Skimming, Patchy, Blind}

Speak(words, timed, ring) == [t |-> [words |-> words, timed |-> timed], ring |-> ring]
Timed(words, ring) == Speak(words, TRUE, ring)

AboutMonitors ==
  { <<"move", "this", "monitor", "closer">>, <<"push", "that", "away">>, <<"move", "closer">>,
    <<"bring", "the", "coding", "monitor", "closer">>, <<"bring", "the", "mail", "closer">>,
    <<"move", "the", "focused", "monitor", "closer">>, <<"pick", "this", "up">>,
    <<"grab", "the", "video", "screen">>, <<"pick", "it", "up", "and", "follow", "me">>,
    <<"put", "it", "here">>, <<"put", "the", "coding", "monitor", "here">>, <<"dock", "it", "here">>,
    <<"center", "this">>, <<"have", "this", "follow", "my", "head">>, <<"lock", "it">>,
    <<"anchor", "this", "screen", "to", "my", "body">>, <<"undock">>, <<"come", "here">> }

AboutWindows ==
  { <<"move", "the", "browser", "to", "the", "coding", "monitor">>, <<"move", "youtube", "here">>,
    <<"move", "the", "wiki", "to", "the", "left">>, <<"send", "notes", "to", "the", "right">>,
    <<"move", "this", "window", "to", "this", "monitor">>, <<"put", "firefox", "on", "the", "xr", "screen">>,
    <<"move", "mail", "to", "workspace", "3">>, <<"throw", "it", "to", "workspace", "too">>,
    <<"move", "workspace", "for", "in", "this", "monitor">>, <<"move", "workspace", "two", "here">>,
    <<"workspace", "to", "here">>, <<"workspace", "three">>, <<"go", "to", "workspace">>,
    <<"move", "workspace", "to", "the", "right">>,
    <<"focus", "the", "browser">>, <<"focus", "this">>, <<"focus", "mail">>,
    <<"make", "this", "window", "full", "screen">>, <<"maximize", "the", "terminal">>,
    <<"move", "workspace", "1", "over", "to", "the", "xr", "monitor">> }

AboutNeither ==
  { <<"hands", "off">>, <<"hide", "monitors">>, <<"open", "firefox">>, <<"open", "mail">>,
    <<"launch">>, <<"thank", "you">> }

Single(d, c, words, ring) == [desk |-> d, cfg |-> c, says |-> <<Timed(words, ring)>>]

NewHere == <<"create", "a", "monitor", "here">>

Commands ==
  {Single(d, On, u, ring) : d \in {Desk, SplitDesk}, u \in AboutMonitors \cup AboutWindows, ring \in Looks}
    \cup {Single(Desk, c, u, Saccade) : c \in {On, Bare, Dry, Off},
                                         u \in AboutMonitors \cup AboutNeither \cup AboutWindows}
    \cup {Single(OddDesk, On, u, Steady) : u \in AboutWindows}
    \cup {Single(OddDesk, On, <<"move", "youtube", "to", "the", "living", "monitor">>, Steady)}
    \cup {[desk |-> Desk, cfg |-> On, says |-> <<Speak(u, FALSE, ring)>>] :
            u \in AboutMonitors, ring \in {Turning, Patchy}}
    \cup {Single(Desk, c, NewHere, ring) : c \in {On, NoCreate, Dry}, ring \in Looks}
    \cup {[desk |-> Desk, cfg |-> On, says |-> <<Timed(one, Saccade), Timed(two, Steady)>>] :
            one \in {NewHere, <<"pick", "this", "up">>},
            two \in {NewHere, <<"put", "it", "here">>, <<"move", "youtube", "to", "the", "xr", "monitor">>}}

Unseen == {Single(Desk, On, <<"grab", "the", "mail", "monitor">>, Steady)}
=============================================================================
