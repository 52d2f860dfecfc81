------------------------------ MODULE MCTools ------------------------------
(* The programs beside the agents of ver2.0 in one run: the monitor with   *)
(* virtual_gw on the queues they share, the field conversions, or MyAgent  *)
(* with its carrier.  These share nothing, so a behaviour is of one of     *)
(* them, the others being idle: the run explores the sum of their state    *)
(* spaces and not the product.                                             *)
EXTENDS Monitor, FieldConversion, MyAgent

VARIABLE part

vars == <<toolVars, convVars, myVars, part>>

(* Empty, blank, short, exact and overlong values, dates, numbers.         *)
MCGiven == { <<>>, <<" ">>, <<"1">>, <<"a">>, <<"0", "1">>, <<"+", "8">>,
             <<"-", "0", "2">>, <<"a", " ", "B">>, <<" ", "0", "0">>,
             <<"1", "2", "a">>, <<"1", "2", "0", "8">>,
             <<"2", "0", "1", "2", "0", "8">>,
             <<"2", "0", "1", "8", "1", "2", "0", "1">> }

MCChar == Written \cup {"3", "4"}

MCCodes == {0, 3, CHECK_FIELD_LENGTH, CHECK_NUMERIC_ONLY, CHECK_ALPHA_ONLY,
            STOP_CONV, STOP_CONV_IF_BLANK, FILL_SPACE, FILL_SPACE_LEFT,
            FILL_SPACE_RIGHT, FILL_ZERO_LEFT, DEL_SPACE, 301,
            CHG_PLUS_TO_SPACE, ADD_HAN_WON, ADD_CHAR_PERCENT,
            INS_SLASH_TO_DATE, INS_HYPHEN_TO_DATE,
            TO_UPPER, TO_LOWER, TO_NUMBER, FIT_LEFT}

MCFields ==
    [fill: {"POST"}, len: {1, 3, 6}, deflt: {<<"1">>},
     conv: {<<>>} \cup {<<c>>: c \in MCCodes} \cup {<<c, d>>: c, d \in MCCodes}]
    \cup
    [fill: {"FIXED", "STREAM"}, len: {8}, deflt: {<<"a">>, <<"1", "2", "3", "4">>},
     conv: {<<c, d, FIT_LEFT>>: c, d \in {INS_SLASH_TO_DATE, FILL_ZERO_LEFT, TO_NUMBER}}]

(* Two valid messages; or one behind another that is not to be sent, which *)
(* may come first in a recovered file.                                     *)
MCKinds == {<<"valid", "valid">>, <<"invalid", "valid">>}

NoTools ==
    /\ GwInit
    /\ proc = "ended"
    /\ Qs = [q \in Queue |-> init_Qs] /\ counted = [q \in Queue |-> [s \in Side |-> 0]]
    /\ obj = [q \in Queue |-> "none"] /\ monPc = [q \in Queue |-> "none"]
    /\ mainPc = "gone" /\ keyPc = "gone" /\ key = NoKey /\ index = 1
    /\ mutex = Nobody /\ quitFlag = FALSE /\ logOpen = FALSE

NoConversion ==
    /\ field = CHOOSE f \in Fields: TRUE
    /\ value = <<>> /\ dst = <<>> /\ k = 1 /\ convPc = "idle"

NoAgent ==
    /\ kind = CHOOSE f \in Kinds: TRUE
    /\ running = TRUE /\ request = <<>> /\ xa = {}
    /\ pc = [s \in Sender |-> "ended"] /\ hand = [s \in Sender |-> NoMsg]
    /\ conn = [s \in Sender |-> FALSE] /\ file = [s \in Sender |-> <<>>]
    /\ toSim = [s \in Sender |-> <<>>] /\ toAgent = [s \in Sender |-> <<>>]
    /\ simQ = <<>> /\ simXA = FALSE /\ stopFlag = FALSE /\ resPc = "idle"
    /\ received = [m \in Msg |-> 0] /\ reported = {}
    /\ breaks = 0 /\ crashes = 0 /\ recovered = FALSE /\ unsaved = Msg

Init ==
    \/ part = "queues" /\ ToolsInit /\ NoConversion /\ NoAgent
    \/ part = "fields" /\ NoTools /\ ConvInit /\ NoAgent
    \/ part = "agent" /\ NoTools /\ NoConversion /\ MyInit

Next ==
    /\ UNCHANGED part
    /\ \/ part = "queues" /\ ToolsNext /\ UNCHANGED <<convVars, myVars>>
       \/ part = "fields" /\ ConvNext /\ UNCHANGED <<toolVars, myVars>>
       \/ part = "agent" /\ MyNext /\ UNCHANGED <<toolVars, convVars>>

Spec == Init /\ [][Next]_vars /\ MonFairness
=============================================================================
