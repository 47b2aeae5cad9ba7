------------------------------ MODULE MCServer ------------------------------
(* Three searches for one or two slots, so that two can wait for one, and  *)
(* two compactions that overlap.  Files are all sequences of at most three *)
(* lines out of two sections, a number (zero, small, no number), a text, a *)
(* name without value and a garbled line.                                  *)
EXTENDS Server

CONSTANTS Addr, Other, FromEnvAddr, Wal, LongKey, ShortKey

MCDefault ==
    (<<"http", "address">> :> Addr) @@ (<<"storage", "wal_path">> :> Wal)
    @@ (<<"security", "cursor_signing_key">> :> LongKey)
    @@ (<<"limits", "max_fields">> :> 128) @@ (<<"limits", "max_bulk_items">> :> 1000)
    @@ (<<"limits", "search_concurrency">> :> 2)
MCParsed == Limits
MCNames == {"http", "limits", "address", "search_concurrency"}
MCValues == {Addr, Other, FromEnvAddr, Wal, LongKey, ShortKey, 0, 1, 2, 128, 1000}
MCJunk == [s \in Parsed |-> MCValues \ {0, 1, 2, 128, 1000}]
MCFromEnv == {<<"http", "address">>, <<"storage", "wal_path">>,
              <<"security", "cursor_signing_key">>}
MCLine(n, v) == [name |-> n, value |-> v]
MCLines == {MCLine("limits", Empty), MCLine("http", Empty), Garbled,
            MCLine("address", Other), MCLine("address", Empty),
            MCLine("search_concurrency", 0), MCLine("search_concurrency", 1),
            MCLine("search_concurrency", Other)}
MCFiles == UNION {[1..n -> MCLines] : n \in 0..3}
MCEnvs == {[s \in FromEnv |-> Unset],
           [s \in FromEnv |-> IF s = <<"http", "address">> THEN FromEnvAddr ELSE Unset],
           [s \in FromEnv |-> IF s = <<"security", "cursor_signing_key">>
                              THEN ShortKey ELSE Unset]}
=============================================================================
