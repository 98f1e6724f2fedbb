-------------------------------- MODULE Sales --------------------------------
(***************************************************************************)
(* The sale of a car, beside its reservations, contracts and work orders:  *)
(* SalesService, and the commercial status that a manager sets by hand     *)
(* (FleetService).  A handler is one step here.                            *)
(***************************************************************************)
EXTENDS WorkOrders

CONSTANT Ads  \* vehicle_sales rows

VARIABLE sale  \* vehicle_sales

fleetVars == <<rentalVars, wo, sale>>

OnSale == {"LISTED", "NEGOTIATING"}
AdRows == [car : Vehicles, status : OnSale \cup {"SOLD", "WITHDRAWN"}]

ASSUME AdAssumption == NoRow \notin AdRows

Commercial(v, status) == unit' = [unit EXCEPT ![v].commercial = status]

\* Blocks of car v that are not over yet
ToCome(v, kinds) ==
    {b \in Blocks : block[b] # NoRow /\ block[b].vehicle = v /\ block[b].kind \in kinds
                    /\ block[b].until > now}

-----------------------------------------------------------------------------
\* create(): one open announcement of a car (vehicle_sales_one_open); its
\* agenda is not looked at.
List(s, v) ==
    /\ sale[s] = NoRow
    /\ unit[v].commercial # "SOLD"
    /\ \A a \in Ads : sale[a] # NoRow /\ sale[a].car = v => sale[a].status \notin OnSale
    /\ sale' = [sale EXCEPT ![s] = [car |-> v, status |-> "LISTED"]]
    /\ Commercial(v, "FOR_SALE")
    /\ UNCHANGED <<now, resv, ctr, leg, block, insp, bill, seen, wo>>

\* setProposalStatus(): a proposal is accepted.
Negotiate(s) ==
    /\ sale[s] # NoRow /\ sale[s].status = "LISTED"
    /\ sale' = [sale EXCEPT ![s].status = "NEGOTIATING"]
    /\ UNCHANGED <<rentalVars, wo>>

\* Back to what the agenda says: setCommercial(AVAILABLE) and recompute
BackToFleet(v) == Commercial(v, ByAgenda(v))

\* withdraw()
Withdraw(s) ==
    /\ sale[s] # NoRow /\ sale[s].status \in OnSale
    /\ sale' = [sale EXCEPT ![s].status = "WITHDRAWN"]
    /\ BackToFleet(sale[s].car)
    /\ UNCHANGED <<now, resv, ctr, leg, block, insp, bill, seen, wo>>

\* Mutant of CanClose: the agenda alone is checked, and only for maintenance.
CanCloseSoon(v) == ToCome(v, {"MAINTENANCE"}) = {}

\* checks(): no contract from approval on has the car, nothing is to come in
\* its agenda and no work order is open.
CanClose(v) ==
    /\ \A g \in Legs : leg[g] # NoRow /\ leg[g].car = v /\ leg[g].till = NoRow =>
          ctr[leg[g].ctr].status \notin {"ACTIVE", "APPROVED", "PENDING_APPROVAL"}
    /\ ToCome(v, {"RESERVATION", "CONTRACT", "MAINTENANCE"}) = {}
    /\ \A o \in Orders : OpenOrder(o) => wo[o].car # v

\* close()
Close(s) ==
    /\ sale[s] # NoRow /\ sale[s].status \in OnSale
    /\ CanClose(sale[s].car)
    /\ sale' = [sale EXCEPT ![s].status = "SOLD"]
    /\ Commercial(sale[s].car, "SOLD")
    /\ UNCHANGED <<now, resv, ctr, leg, block, insp, bill, seen, wo>>

\* changeStatus(), commercial: put on sale, with nothing to come; or off sale or
\* recomputed, which leaves an open announcement as it is.
ForSaleByHand(v) ==
    /\ unit[v].commercial \notin OffFleet
    /\ ToCome(v, {"RESERVATION", "CONTRACT"}) = {}
    /\ Commercial(v, "FOR_SALE")
    /\ UNCHANGED <<now, resv, ctr, leg, block, insp, bill, seen, wo, sale>>

OffSaleByHand(v) ==
    /\ unit[v].commercial # "SOLD"
    /\ BackToFleet(v)
    /\ UNCHANGED <<now, resv, ctr, leg, block, insp, bill, seen, wo, sale>>

-----------------------------------------------------------------------------
FleetInit ==
    /\ Init
    /\ wo = [o \in Orders |-> NoRow]
    /\ sale = [s \in Ads |-> NoRow]

FleetNext ==
    \/ Next /\ UNCHANGED <<wo, sale>>
    \/ \E o \in Orders : WorkOrderStep(o) /\ UNCHANGED sale
    \/ \E v \in Vehicles : BlockOverdue(v) /\ UNCHANGED sale
    \/ \E s \in Ads : Negotiate(s) \/ Withdraw(s) \/ Close(s) \/ \E v \in Vehicles : List(s, v)
    \/ \E v \in Vehicles : ForSaleByHand(v) \/ OffSaleByHand(v)

FleetSpec == FleetInit /\ [][FleetNext]_fleetVars

\* As FairSpec of Rentals: the hourly job runs, transactions end, time passes.
FairFleetSpec ==
    /\ FleetSpec
    /\ WF_fleetVars(Expire(Overdue) /\ UNCHANGED <<wo, sale>>)
    /\ \A w \in Workers : WF_fleetVars(Abandon(w) /\ UNCHANGED <<wo, sale>>)
    /\ SF_fleetVars(Tick /\ UNCHANGED <<wo, sale>>)

-----------------------------------------------------------------------------
(* Properties *)

\* A car that was sold is out of the business (sales.service.ts:194-196): it
\* was sold once, nobody has it on contract, and no reservation and no work
\* order waits for it, nor comes to, though its announcement was left open
\* while it was back in the fleet.
SoldIsGone ==
    \A v \in Vehicles : unit[v].commercial = "SOLD" =>
        /\ \E s \in Ads : sale[s] = [car |-> v, status |-> "SOLD"]
        /\ \A s \in Ads : sale[s] # NoRow /\ sale[s].car = v => sale[s].status \notin OnSale
        /\ \A g \in Legs : leg[g] # NoRow /\ leg[g].car = v /\ leg[g].till = NoRow =>
              ctr[leg[g].ctr].status # "ACTIVE"
        /\ ToCome(v, {"RESERVATION", "MAINTENANCE"}) = {}
        /\ \A o \in Orders : OpenOrder(o) => wo[o].car # v
=============================================================================
