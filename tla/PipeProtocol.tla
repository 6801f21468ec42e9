---------------------------- MODULE PipeProtocol ----------------------------
(***************************************************************************)
(* The two wire protocols: what each request of a host may be answered     *)
(* with by its DLL, and what the host's typed client takes for an answer.  *)
(*                                                                         *)
(*   src/crates/ue5-protocol, glacier-protocol          the enums          *)
(*   src/crates/batman-lod-dll, glacier-007-dll         handle_request     *)
(*   src/crates/ue5-host, glacier-host                  the typed clients  *)
(*                                                                         *)
(* A message is its kind; payloads are left out, but for their size.  A    *)
(* table is a set of pairs: the kind of a request, the kind of an answer.  *)
(***************************************************************************)
Engines == {"ue5", "glacier"}

\* What both DLLs answer in the same way.
CommonReplies ==
    {<<"Ping", "Pong">>, <<"Disconnect", "DisconnectAck">>, <<"DrainLog", "LogLines">>,
     <<"EnumModules", "Modules">>, <<"ScanModule", "Matches">>,
     <<"ScanModuleAll", "Matches">>, <<"ScanHeapForU64", "Matches">>}

Ue5Replies ==
    CommonReplies \cup
    {<<"SetLogLevel", "Pong">>, <<"WalkObjects", "Objects">>,
     <<"WalkProperties", "Properties">>, <<"WalkFunctions", "Functions">>,
     <<"ReadProperty", "PropertyValue">>, <<"WriteProperty", "WriteOk">>,
     <<"CodePatch", "PatchOk">>, <<"RestorePatch", "RestoreOk">>,
     <<"FindUObject", "FoundObject">>, <<"FindUObject", "NotFound">>,
     <<"FindAllUObjects", "FoundObjects">>, <<"ResolveProperty", "Resolved">>,
     <<"ResolveProperty", "NotFound">>, <<"CallUFunction", "CallOk">>,
     <<"CallUFunction", "NotFound">>, <<"RunLua", "LuaStarted">>,
     <<"RunLua", "LuaError">>, <<"StopLua", "LuaStopped">>, <<"StopLua", "LuaError">>,
     <<"LuaStatus", "LuaStatusInfo">>, <<"DrainLuaOutput", "LuaOutput">>}

GlacierReplies ==
    CommonReplies \cup
    {<<"SetLogLevel", "LogLines">>, <<"ReadBytes", "Bytes">>,
     <<"WriteBytes", "WriteOk">>, <<"ResolveType", "ResolvedType">>,
     <<"ResolveType", "NotFound">>, <<"EnumerateTypeProperties", "TypeProperties">>,
     <<"EnumerateTypeProperties", "NotFound">>,
     <<"InstanceProperties", "InstanceProps">>,
     <<"ResolveInstanceProperty", "ResolvedField">>,
     <<"ResolveInstanceProperty", "NotFound">>, <<"SetProperty", "WriteOk">>,
     <<"SetProperty", "NotFound">>, <<"FindEntitiesWithProperty", "Entities">>,
     <<"FireNode", "WriteOk">>, <<"GameThreadCall", "GameThreadCallResult">>,
     <<"StartFreeze", "FreezeStarted">>, <<"StopFreeze", "FreezeStopped">>,
     <<"QueryFreezeStats", "FreezeStats">>, <<"FindWriter", "WriterFound">>,
     <<"CodePatch", "WriteOk">>, <<"RestorePatch", "WriteOk">>}

\* Any request may also be answered with "Error".
Replies(engine) == IF engine = "ue5" THEN Ue5Replies ELSE GlacierReplies

Requests(engine) == {pair[1] : pair \in Replies(engine)}

RepliesTo(engine, request) ==
    {pair[2] : pair \in {p \in Replies(engine) : p[1] = request}} \cup {"Error"}

\* The kinds of message there are.
Kinds ==
    LET pairs == Ue5Replies \cup GlacierReplies
    IN  {"Hello", "Welcome", "Error"} \cup {pair[1] : pair \in pairs}
            \cup {pair[2] : pair \in pairs}

\* What the client's methods take, besides "Error".
Ue5Accepts ==
    {<<"SetLogLevel", "Pong">>, <<"SetLogLevel", "WriteOk">>,
     <<"SetLogLevel", "LogLines">>, <<"FindUObject", "FoundObject">>,
     <<"FindUObject", "NotFound">>, <<"ResolveProperty", "Resolved">>,
     <<"ResolveProperty", "NotFound">>, <<"CallUFunction", "CallOk">>,
     <<"CallUFunction", "NotFound">>, <<"Ping", "Pong">>,
     <<"Disconnect", "DisconnectAck">>, <<"DrainLog", "LogLines">>,
     <<"EnumModules", "Modules">>, <<"ScanModule", "Matches">>,
     <<"ScanModuleAll", "Matches">>, <<"ScanHeapForU64", "Matches">>,
     <<"WalkObjects", "Objects">>, <<"WalkProperties", "Properties">>,
     <<"WalkFunctions", "Functions">>, <<"ReadProperty", "PropertyValue">>,
     <<"WriteProperty", "WriteOk">>, <<"CodePatch", "PatchOk">>,
     <<"RestorePatch", "RestoreOk">>, <<"FindAllUObjects", "FoundObjects">>,
     <<"RunLua", "LuaStarted">>, <<"RunLua", "LuaError">>, <<"StopLua", "LuaStopped">>,
     <<"StopLua", "LuaError">>, <<"LuaStatus", "LuaStatusInfo">>,
     <<"DrainLuaOutput", "LuaOutput">>}

GlacierAccepts ==
    {<<"ResolveType", "ResolvedType">>, <<"ResolveType", "NotFound">>,
     <<"EnumerateTypeProperties", "TypeProperties">>,
     <<"EnumerateTypeProperties", "NotFound">>,
     <<"ResolveInstanceProperty", "ResolvedField">>,
     <<"ResolveInstanceProperty", "NotFound">>, <<"SetProperty", "WriteOk">>,
     <<"SetProperty", "NotFound">>, <<"FireNode", "WriteOk">>,
     <<"FireNode", "NotFound">>, <<"Ping", "Pong">>, <<"Disconnect", "DisconnectAck">>,
     <<"DrainLog", "LogLines">>, <<"SetLogLevel", "LogLines">>,
     <<"EnumModules", "Modules">>, <<"ScanModule", "Matches">>,
     <<"ScanModuleAll", "Matches">>, <<"ScanHeapForU64", "Matches">>,
     <<"ReadBytes", "Bytes">>, <<"WriteBytes", "WriteOk">>,
     <<"InstanceProperties", "InstanceProps">>,
     <<"FindEntitiesWithProperty", "Entities">>,
     <<"GameThreadCall", "GameThreadCallResult">>, <<"StartFreeze", "FreezeStarted">>,
     <<"StopFreeze", "FreezeStopped">>, <<"QueryFreezeStats", "FreezeStats">>,
     <<"FindWriter", "WriterFound">>, <<"CodePatch", "WriteOk">>,
     <<"RestorePatch", "WriteOk">>}

Accepts(engine) == IF engine = "ue5" THEN Ue5Accepts ELSE GlacierAccepts

\* The replies whose size the request or the game's state decides: they are
\* framed whatever their length (encode_framed), and the other side refuses a
\* prefix of more than MAX_FRAME_BYTES (parse_len_prefix).
Unbounded ==
    {"Bytes", "PropertyValue", "Objects", "Matches", "Entities", "InstanceProps", "FoundObjects"}

=============================================================================
