-------------------------------- MODULE MCSession --------------------------------
EXTENDS Session

Entry(name, port) == [host |-> name, port |-> port, wildcard |-> FALSE]

(* One bundle that may reach one host, write one unit and has buffers; one *)
(* that says nothing and has a CPU limit.                                   *)
MCManifest ==
  [b1 |-> [network |-> [allow |-> {Entry(<<"com", "a">>, Unset)},
                        httpsOnly |-> TRUE, maxBody |-> 0],
           filesystem |-> [mode |-> "readWrite", quota |-> 1],
           capabilities |-> {"rawctx_buffers"}, limits |-> {}],
   b2 |-> [network |-> Unset, filesystem |-> Unset,
           capabilities |-> {}, limits |-> {"cpu"}]]

MCSessions ==
  {[bundle |-> "b1", binding |-> "plain", limits |-> {"wall"}],
   [bundle |-> "b2", binding |-> "table", limits |-> {"heap"}]}

MCUses == {<<"python", "Full">>, <<"python", "SharedBuffersOnly">>,
           <<"python", "None">>, <<"javascript", "SharedBuffersOnly">>}

Send(name, https, body) ==
  [host |-> name, port |-> Unset, https |-> https, body |-> body,
   kind |-> "remote"]

MCRequests ==
  {Send(<<"com", "a">>, TRUE, 0), Send(<<"com", "a">>, TRUE, 1),
   Send(<<"com", "a">>, FALSE, 0),
   [Send(<<"com", "b">>, TRUE, 0) EXCEPT !.kind = "other"]}

===============================================================================
