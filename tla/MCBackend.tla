----------------------------- MODULE MCBackend -----------------------------
(* Two requests that overlap and a third message, in four mixes that have    *)
(* every form of message and every kind of client; a channel of one.         *)
EXTENDS Backend

CONSTANTS get, put, other

MCMsg == {get, put, other}

Made(form, client) == [form |-> form, client |-> client]

Mix(second, third) ==
    [m \in MCMsg |-> CASE m = get -> Made("http", "browser")
                       [] m = put -> second
                       [] m = other -> third]

MCMixes == {Mix(Made("http", "browser"), Made("text", "native")),
            Mix(Made("http", "native"), Made("raw", "browser")),
            Mix(Made("malformed", "browser"), Made("text", "native")),
            Mix(Made("nowhere", "browser"), Made("custom", "native"))}
=============================================================================
