------------------------------ MODULE MCStartup ------------------------------
(* A newer version of the built-in template with another host, two files with   *)
(* one id and different hosts, and a file that does not parse.                  *)
EXTENDS Startup

WithHost(id, hostname) ==
    [UtahVoterTemplate EXCEPT !.id = id, !.hostname = hostname]

MCFile == {"utah2", "ohioA", "ohioB", "broken"}
MCContent ==
    [f \in MCFile |->
        CASE f = "utah2"  -> WithHost("utah-voter-v1", "new.utah.gov")
          [] f = "ohioA"  -> WithHost("ohio-v1", "a.ohio.gov")
          [] f = "ohioB"  -> WithHost("ohio-v1", "b.ohio.gov")
          [] f = "broken" -> Unparsable]
==============================================================================
