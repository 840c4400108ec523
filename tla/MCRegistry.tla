----------------------------- MODULE MCRegistry -----------------------------
(* Small instances of Registry. *)
EXTENDS Registry, TLC

CONSTANTS n1, n2, Owner, Other

two_nodes == {n1, n2}

entry(v, b) == [version |-> v, blob |-> b, signer |-> Owner]
one == <<entry(1, "x")>>
full == <<entry(1, "x"), entry(2, "y")>>
former == <<[entry(1, "x") EXCEPT !.signer = Other]>>

typed(words, b, k) == [line |-> words, blob |-> b, signer |-> k]
publish(v, b) == typed(<< <<"publish">>, <<"d", "p", v>>, <<"in">> >>, b, Owner)
fork(v, prev, b) == typed(<< <<"publish">>, prev, <<"d", "p", v>>, <<"in">>, <<"--force">> >>, b, Owner)
force(v, b, k) == typed(<< <<"publish">>, <<"--force">>, <<"d", "p", v>>, <<"in">> >>, b, k)
install(v) == typed(<< <<"install">>, <<"d", "p", v>> >>, None, Owner)
install_as(v, f) == typed(<< <<"install">>, <<"d", "p", v>>, <<f>> >>, None, Owner)
show == typed(<< <<"show">>, <<"d", "p">> >>, None, Owner)
put(b) == typed(<< <<"put">>, <<"in">> >>, b, Owner)
get(k) == typed(<< <<"get">>, <<k>> >>, None, Owner)
get_as(k, f) == typed(<< <<"get">>, <<k>>, <<f>> >>, None, Owner)
scenario(a, b, h1, h2, rs, fs) ==
    [typed |-> "p" :> a @@ "q" :> b, start |-> n1 :> h1 @@ n2 :> h2,
     records |-> <<"v=spf1", "d7024ePK=owner", "d7024ePK=other">>, republishing |-> rs, faults |-> fs, present |-> {<<"g">>}]

alone(a, h1, h2, rs, fs) == [scenario(a, a, h1, h2, rs, fs) EXCEPT !.typed = "p" :> a]

scenarios ==
    { \* racing publishers, from nothing and from a pointer that one node missed
      scenario(publish("1", "x"), publish("2", "y"), <<>>, <<>>, {}, 2),
      alone(publish("1", "x"), <<>>, <<>>, {}, 2),
      scenario(publish("2", "y"), publish("3", "z"), one, one, {}, 1),
      \* installing while a version is published
      scenario(publish("1", "x"), install_as("latest", "f"), <<>>, <<>>, {}, 2),
      scenario(publish("2", "y"), install("latest"), one, <<>>, {}, 2),
      \* a history at its limit, a fork, a rollback and another's key by force
      scenario(publish("3", "z"), fork("3", <<"--prev=1">>, "x"), full, one, {}, 1),
      scenario(force("1", "z", Owner), force("2", "z", Other), one, <<>>, {}, 1),
      \* a pointer left from before the key in DNS was changed
      scenario(publish("1", "y"), publish("2", "z"), former, <<>>, {}, 1),
      alone(publish("1", "y"), former, <<>>, {n1}, 0),
      scenario(publish("2", "y"), install("latest"), former, one, {}, 1),
      \* no key in DNS, and force
      [scenario(force("1", "x", Owner), publish("1", "y"), <<>>, <<>>, {}, 1) EXCEPT !.records = <<"v=spf1">>],
      \* republishing what a publisher, a miss or a restart left uneven
      alone(publish("1", "x"), <<>>, <<>>, {n1}, 1),
      alone(publish("2", "y"), one, <<>>, {n1}, 1),
      alone(show, one, <<>>, Nodes, 1),
      \* two installs of one file, and the other commands
      scenario(install("1"), install("latest"), one, one, {}, 2),
      scenario(install_as("2", "g"), get("kx"), one, <<>>, {}, 2),
      scenario(typed(<< <<"show">>, <<"ds">> >>, None, Owner), typed(<< <<"exit">> >>, None, Owner), one, <<>>, {n1}, 1),
      scenario(put("z"), get_as("kz", "h"), one, full, {}, 2) }

one_stem(domain, package) == "stem"
keys == "d7024ePK=owner" :> Owner @@ "d7024ePK=other" :> Other
texts == "1" :> 1 @@ "2" :> 2 @@ "3" :> 3
hashes == "kx" :> "x" @@ "kz" :> "z"
addresses == { <<"127.0.0.1", "9000">> }
options == { <<"--fast">> }
prev == <<"--prev=1">> :> "1" @@ <<"--prev=2">> :> "2" @@ <<"--prev=">> :> ""
outputs == { <<"f">>, <<"g">>, <<"h">> } \union {default_install_filename("d", "p", v) : v \in 1..3}
=============================================================================
