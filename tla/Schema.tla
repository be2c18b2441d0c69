------------------------------- MODULE Schema -------------------------------
(***************************************************************************)
(* The tables of packages/db/src/schema.ts and the foreign keys between    *)
(* them, as the migrations leave them in Postgres.  Every table but        *)
(* `companies` names its company; every other reference is a composite key *)
(* (company_id, x_id) to a row of the same company.  All are ON DELETE NO  *)
(* ACTION and not deferrable but one, which ends the same way: see Lazy.   *)
(*                                                                         *)
(* A pair <<t, u>> says that a row of t may name a row of u.               *)
(***************************************************************************)

To(table, targets) == {table} \X targets

Organization == To("branches", {"companies"})
                \union To("users", {"companies", "branches"})

Sessions == To("sessions", {"companies", "users", "branches"})

Technicians == To("technicians", {"companies", "users", "branches"})

Customers == To("customers", {"companies", "branches"})
             \union To("service_addresses", {"companies", "customers"})

Tickets == To("tickets", {"companies", "branches", "customers",
                          "service_addresses", "users"})

WorkOrders == To("work_orders", {"companies", "branches", "tickets", "customers",
                                 "service_addresses", "technicians"})

Dispatches == To("dispatches", {"companies", "work_orders", "branches",
                                "technicians", "users"})

Files == To("files", {"companies"})

Locations == To("technician_locations", {"companies", "technicians",
                                         "work_orders", "branches"})

Evidences == To("evidences", {"companies", "work_orders", "technicians", "files"})

Events == To("work_order_events",
             {"companies", "work_orders", "technicians", "users", "dispatches",
              "technician_locations", "evidences", "work_order_events",
              "branches"})

Receipts == To("sync_receipts", {"companies", "work_order_events", "evidences"})

AuditLogs == To("audit_logs", {"companies", "users"})

\* The circular references, which only the migration declares.  The first is
\* ON DELETE SET NULL on both columns: the company of a work order cannot be
\* null, so the deletion of its current dispatch fails as if restricted.
Lazy == {<<"work_orders", "dispatches">>,
         <<"technician_locations", "work_order_events">>,
         <<"evidences", "work_order_events">>}

References ==
    Organization \union Sessions \union Technicians \union Customers
    \union Tickets \union WorkOrders \union Dispatches \union Files
    \union Locations \union Evidences \union Events \union Receipts
    \union AuditLogs \union Lazy

Tables == {"companies"} \union {r[1] : r \in References}

=============================================================================
