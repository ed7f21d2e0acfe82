------------------------------ MODULE MCFlags ------------------------------
EXTENDS Flags, TLC

FlagSymmetry == Permutations(Reports) \cup Permutations(Patches) \cup Permutations(Creators)

MCEmails == {"root", "ann", "cy", "new"}

(* The admin and a user of a tenant; the other has a site s1, too.         *)
MCFounders ==
    [root |-> [tenant |-> None, sites |-> {}, group |-> "super_admin"],
     ann |-> [tenant |-> "t1", sites |-> {}, group |-> "tenant_admin"],
     cy |-> [tenant |-> "t1", sites |-> {"s1"}, group |-> "user"]]

MCSitesOf == [t1 |-> {"s1", "s2"}, t2 |-> {"s1"}]

MCBodies ==
    {[email |-> "new", role |-> "tenant_admin", tenant |-> None, sites |-> {}],
     [email |-> "new", role |-> "tenant_admin", tenant |-> "t2", sites |-> {}],
     [email |-> "new", role |-> "super_admin", tenant |-> "t2", sites |-> {}],
     [email |-> "new", role |-> "user", tenant |-> "t1", sites |-> {"s2"}],
     [email |-> "cy", role |-> "tenant_admin", tenant |-> None, sites |-> {}]}

(* One flag of either tenant, raised before the clock starts.              *)
MCRaised ==
    {[id |-> "f1", tenant |-> "t1", site |-> "s2", reason |-> "dark", status |-> "open",
      raised_at |-> 0, raised_by |-> None, acting_user |-> None],
     [id |-> "f2", tenant |-> "t2", site |-> "s1", reason |-> "dark",
      status |-> "acknowledged", raised_at |-> 0, raised_by |-> None, acting_user |-> None]}
=============================================================================
